---- MODULE Spec2Model ----
(***************************************************************************)
(* Model of the Markdown renderer of src/utils/textUtils.ts                *)
(* (src/unnamed/part_001): escapeHtml and markdownToHtml.                  *)
(*                                                                         *)
(* A JavaScript string is a sequence of one-character strings.  Every      *)
(* String.prototype.replace(/re/g, ...) of the source is one pass over the *)
(* buffer: the pass scans the buffer from left to right, takes the first   *)
(* position where the regular expression matches, emits the replacement    *)
(* and resumes right after the match.  Each regular expression is given    *)
(* by an operator XxxMatchEnd(s, i), the last index of the match that      *)
(* starts at index i of s (0 when there is none), following the            *)
(* backtracking order of the expression (greedy or lazy quantifiers).      *)
(***************************************************************************)
EXTENDS Integers, Sequences, FiniteSets, TLC

VARIABLES
  markdownText,  \* the argument of markdownToHtml
  pc,            \* the statement markdownToHtml is about to execute
  html,          \* let html: the markup buffer
  lines,         \* const lines = html.split(/\n/)
  lineIdx,       \* the index of the line lines.map is about to visit
  mapped,        \* the strings the map callback has returned so far
  inParagraph,   \* let inParagraph
  result,        \* the value returned
  calls,         \* invocations of markdownToHtml in flight at the same time
  frames,        \* the locals (html, lines, inParagraph) of those invocations
  app,           \* the state of the App component (its useState values)
  transcription, \* the handleTranscription call and the generator it consumes
  summarization, \* the handleSummarization call
  translation    \* the handleTranslation call

vars ==
  <<markdownText, pc, html, lines, lineIdx, mapped, inParagraph, result,
    calls, frames, app, transcription, summarization, translation>>

\* What one call of markdownToHtml leaves alone.
others == <<calls, frames, app, transcription, summarization, translation>>

(***************************************************************************)
(* Characters.                                                             *)
(***************************************************************************)
NL == "\n"
SP == " "
TAB == "\t"
\* U+0060, the grave accent (backtick); the lexer of TLA+ reserves that
\* character, so the one-character string is spelled out.
BT == "GRAVE"
STAR == "*"
USCORE == "_"
DASH == "-"
DOT == "."
COLON == ":"
AMP == "&"
LT == "<"
GT == ">"
DQUOTE == "\""
SQUOTE == "'"

\* \s of a JavaScript regular expression and the characters String.trim()
\* strips (the ASCII members of the class).
\* A whitespace class that leaves the tab out.
WhiteSpaceWithoutTab == {SP, NL, "\r", "\f"}

WhiteSpace == {SP, TAB, NL, "\r", "\f"}

\* The characters '.' does not match, and after which /m lets ^ match.
LineTerminator == {NL, "\r"}

Digit == {"0", "1", "2", "3", "4", "5", "6", "7", "8", "9"}

Letter ==
  {"a", "b", "c", "d", "e", "f", "g", "h", "i", "j", "k", "l", "m",
   "n", "o", "p", "q", "r", "s", "t", "u", "v", "w", "x", "y", "z",
   "A", "B", "C", "D", "E", "F", "G", "H", "I", "J", "K", "L", "M",
   "N", "O", "P", "Q", "R", "S", "T", "U", "V", "W", "X", "Y", "Z"}

\* [A-Za-z0-9]
AlphaNum == Letter \cup Digit

(***************************************************************************)
(* The markup the passes insert.                                           *)
(***************************************************************************)
TagP == <<"<", "p", ">">>
TagPEnd == <<"<", "/", "p", ">">>
TagBr == <<"<", "b", "r", " ", "/", ">">>
TagStrong == <<"<", "s", "t", "r", "o", "n", "g", ">">>
TagStrongEnd == <<"<", "/", "s", "t", "r", "o", "n", "g", ">">>
TagEm == <<"<", "e", "m", ">">>
TagEmEnd == <<"<", "/", "e", "m", ">">>
TagCode == <<"<", "c", "o", "d", "e", ">">>
TagCodeEnd == <<"<", "/", "c", "o", "d", "e", ">">>
TagPre == <<"<", "p", "r", "e", ">">>
TagPreEnd == <<"<", "/", "p", "r", "e", ">">>
TagUl == <<"<", "u", "l", ">">>
TagUlEnd == <<"<", "/", "u", "l", ">">>
TagOl == <<"<", "o", "l", ">">>
TagOlEnd == <<"<", "/", "o", "l", ">">>
TagLi == <<"<", "l", "i", ">">>
TagLiEnd == <<"<", "/", "l", "i", ">">>

EntAmp == <<"&", "a", "m", "p", ";">>
EntLt == <<"&", "l", "t", ";">>
EntGt == <<"&", "g", "t", ";">>
EntQuot == <<"&", "q", "u", "o", "t", ";">>
EntApos == <<"&", "#", "0", "3", "9", ";">>

Fence == <<BT, BT, BT>>
StarStar == <<STAR, STAR>>
UscoreUscore == <<USCORE, USCORE>>
SpeakerWord == <<"S", "p", "e", "a", "k", "e", "r">>

(***************************************************************************)
(* String primitives.                                                      *)
(***************************************************************************)
\* s.startsWith(t, i - 1): t occurs in s at index i.
StartsWithAt(s, i, t) ==
  /\ i >= 1
  /\ i + Len(t) - 1 <= Len(s)
  /\ \A k \in 1..Len(t) : s[i + k - 1] = t[k]

Min(S) == CHOOSE x \in S : \A y \in S : x <= y

Max(S) == CHOOSE x \in S : \A y \in S : x >= y

\* String.prototype.trim.
Trim(s) ==
  LET keep == {i \in 1..Len(s) : s[i] \notin WhiteSpace}
  IN  IF keep = {} THEN <<>> ELSE SubSeq(s, Min(keep), Max(keep))

\* The last index of the maximal run of characters of class C that starts
\* at index i of s (i - 1 when s[i] is not in C): a greedy C*.
RunEnd(s, i, C) ==
  LET stop == {j \in i..Len(s) : s[j] \notin C}
  IN  IF stop = {} THEN Len(s) ELSE Min(stop) - 1

\* The global replace loop: ends[i] is the last index of the match starting
\* at i (0: no match at i), repl[i] the replacement text of that match.
RECURSIVE Substitute(_, _, _, _)
Substitute(s, ends, repl, i) ==
  LET hits == {m \in i..Len(s) : ends[m] # 0}
  IN  IF hits = {} THEN SubSeq(s, i, Len(s))
      ELSE LET m == Min(hits)
           IN  SubSeq(s, i, m - 1) \o repl[m]
                 \o Substitute(s, ends, repl, ends[m] + 1)

\* text.replace(/c/g, rep) for a single character c.
ReplaceChar(s, c, rep) ==
  Substitute(s,
             [i \in 1..Len(s) |-> IF s[i] = c THEN i ELSE 0],
             [i \in 1..Len(s) |-> rep],
             1)

(***************************************************************************)
(* escapeHtml.  A JavaScript value is a record: type is the result of      *)
(* typeof, val the characters of a string (empty for the other types).     *)
(***************************************************************************)
\* The escaper with the replacement of '<' left out.
EscapeCharsWithoutLt(text) ==
  ReplaceChar(
    ReplaceChar(
      ReplaceChar(
        ReplaceChar(text, AMP, EntAmp),
        GT, EntGt),
      DQUOTE, EntQuot),
    SQUOTE, EntApos)

\* The escaper with the ampersand replaced last instead of first.
EscapeCharsAmpLast(text) ==
  ReplaceChar(
    ReplaceChar(
      ReplaceChar(
        ReplaceChar(
          ReplaceChar(text, LT, EntLt),
          GT, EntGt),
        DQUOTE, EntQuot),
      SQUOTE, EntApos),
    AMP, EntAmp)

EscapeChars(text) ==
  ReplaceChar(
    ReplaceChar(
      ReplaceChar(
        ReplaceChar(
          ReplaceChar(text, AMP, EntAmp),
          LT, EntLt),
        GT, EntGt),
      DQUOTE, EntQuot),
    SQUOTE, EntApos)

\* The escaper with its typeof test inverted: a string yields ''.
EscapeHtmlInvertedTypeof(value) ==
  IF value.type = "string" THEN <<>> ELSE EscapeChars(value.val)

EscapeHtml(value) ==
  IF value.type # "string" THEN <<>> ELSE EscapeChars(value.val)

\* -------------------------------------------------------------------------
\* Fenced code blocks: /BT BT BT([\s\S]*?)BT BT BT/g, BT the backtick.
\* -------------------------------------------------------------------------
\* The index of the first closing fence at or after index from (0: none):
\* the lazy [\s\S]*? stops at the first fence that follows.
FenceClose(s, from) ==
  LET close == {j \in from..Len(s) : StartsWithAt(s, j, Fence)}
  IN  IF close = {} THEN 0 ELSE Min(close)

FenceMatchEnd(s, i) ==
  IF StartsWithAt(s, i, Fence) /\ FenceClose(s, i + 3) # 0
  THEN FenceClose(s, i + 3) + 2
  ELSE 0

\* The callback: the captured content, trimmed, inside <pre><code>.
FenceReplacement(s, i) ==
  TagPre \o TagCode \o Trim(SubSeq(s, i + 3, FenceMatchEnd(s, i) - 3))
         \o TagCodeEnd \o TagPreEnd

FencePass(s) ==
  Substitute(s,
             [i \in 1..Len(s) |-> FenceMatchEnd(s, i)],
             [i \in 1..Len(s) |->
                IF FenceMatchEnd(s, i) # 0 THEN FenceReplacement(s, i) ELSE <<>>],
             1)

\* -------------------------------------------------------------------------
\* Inline code: /BT([^BT]+?)BT/g.
\* -------------------------------------------------------------------------
\* [^BT]+? takes at least one character that is not a backtick, so the match
\* ends at the first backtick after i, which must not be the next one.
InlineCodeMatchEnd(s, i) ==
  LET close == {j \in (i + 1)..Len(s) : s[j] = BT}
  IN  IF i <= Len(s) /\ s[i] = BT /\ close # {} /\ Min(close) >= i + 2
      THEN Min(close)
      ELSE 0

InlineCodeReplacement(s, i) ==
  TagCode \o SubSeq(s, i + 1, InlineCodeMatchEnd(s, i) - 1) \o TagCodeEnd

InlineCodePass(s) ==
  Substitute(s,
             [i \in 1..Len(s) |-> InlineCodeMatchEnd(s, i)],
             [i \in 1..Len(s) |->
                IF InlineCodeMatchEnd(s, i) # 0
                THEN InlineCodeReplacement(s, i) ELSE <<>>],
             1)

\* -------------------------------------------------------------------------
\* Speaker labels: /^(?:<strong>)?(Speaker\s[A-Za-z0-9]+:)(?:<\/strong>)?/gm
\* -------------------------------------------------------------------------
\* ^ under the m flag: the start of the buffer or right after a line
\* terminator.
AtLineStart(s, i) == i = 1 \/ (i > 1 /\ i - 1 <= Len(s) /\ s[i - 1] \in LineTerminator)

\* Where the captured label starts: after the optional <strong>.
SpeakerLabelStart(s, i) ==
  IF StartsWithAt(s, i, TagStrong) THEN i + Len(TagStrong) ELSE i

\* The index of the colon that ends the label starting at p (0: no label):
\* "Speaker", one whitespace character, a non-empty run of [A-Za-z0-9], ':'.
SpeakerLabelEnd(s, p) ==
  LET q == p + Len(SpeakerWord) + 1
      r == RunEnd(s, q, AlphaNum)
  IN  IF /\ StartsWithAt(s, p, SpeakerWord)
         /\ q - 1 <= Len(s) /\ s[q - 1] \in WhiteSpace
         /\ r >= q
         /\ r + 1 <= Len(s) /\ s[r + 1] = COLON
      THEN r + 1
      ELSE 0

\* The speaker expression without its ^ anchor: a label matches anywhere.
SpeakerMatchEndUnanchored(s, i) ==
  LET p == SpeakerLabelStart(s, i)
      c == SpeakerLabelEnd(s, p)
  IN  IF c # 0
      THEN IF StartsWithAt(s, c + 1, TagStrongEnd)
           THEN c + Len(TagStrongEnd) ELSE c
      ELSE 0

SpeakerMatchEnd(s, i) ==
  LET p == SpeakerLabelStart(s, i)
      c == SpeakerLabelEnd(s, p)
  IN  IF AtLineStart(s, i) /\ c # 0
      THEN IF StartsWithAt(s, c + 1, TagStrongEnd)
           THEN c + Len(TagStrongEnd) ELSE c
      ELSE 0

SpeakerReplacement(s, i) ==
  LET p == SpeakerLabelStart(s, i)
  IN  TagStrong \o SubSeq(s, p, SpeakerLabelEnd(s, p)) \o TagStrongEnd

SpeakerPass(s) ==
  Substitute(s,
             [i \in 1..Len(s) |-> SpeakerMatchEnd(s, i)],
             [i \in 1..Len(s) |->
                IF SpeakerMatchEnd(s, i) # 0
                THEN SpeakerReplacement(s, i) ELSE <<>>],
             1)

\* -------------------------------------------------------------------------
\* Bold: /\*\*(.*?)\*\*/g and /__(.*?)__/g, for the delimiter d.
\* -------------------------------------------------------------------------
\* The index of the closing delimiter: the first occurrence of d at or
\* after i + 2 with no line terminator in between ('.' does not match one).
BoldClose(s, i, d) ==
  LET close == {j \in (i + 2)..Len(s) :
                  /\ StartsWithAt(s, j, d)
                  /\ \A k \in (i + 2)..(j - 1) : s[k] \notin LineTerminator}
  IN  IF close = {} THEN 0 ELSE Min(close)

BoldMatchEnd(s, i, d) ==
  IF StartsWithAt(s, i, d) /\ BoldClose(s, i, d) # 0
  THEN BoldClose(s, i, d) + 1
  ELSE 0

BoldReplacement(s, i, d) ==
  TagStrong \o SubSeq(s, i + 2, BoldClose(s, i, d) - 1) \o TagStrongEnd

BoldPass(s, d) ==
  Substitute(s,
             [i \in 1..Len(s) |-> BoldMatchEnd(s, i, d)],
             [i \in 1..Len(s) |->
                IF BoldMatchEnd(s, i, d) # 0
                THEN BoldReplacement(s, i, d) ELSE <<>>],
             1)

\* -------------------------------------------------------------------------
\* Italic: /(^|\s)\*(?!\s)(.*?)(?!\s)\*(\s|$)/g and the same with '_', for
\* the delimiter character d.  No m flag: ^ and $ are the ends of the buffer.
\* -------------------------------------------------------------------------
\* The index of the opening delimiter of a match starting at i (0: none):
\* group 1 is empty at the start of the buffer, else one whitespace
\* character; (?!\s) forbids whitespace right after the delimiter.
ItalicOpen(s, i, d) ==
  LET a == IF i = 1 /\ Len(s) >= 1 /\ s[1] = d THEN 1
           ELSE IF i + 1 <= Len(s) /\ s[i] \in WhiteSpace /\ s[i + 1] = d
                THEN i + 1 ELSE 0
  IN  IF a # 0 /\ (a + 1 > Len(s) \/ s[a + 1] \notin WhiteSpace) THEN a ELSE 0

\* The index of the closing delimiter for the opening one at a (0: none):
\* the first d after a, on the same line, that is followed by whitespace or
\* by the end of the buffer.
ItalicClose(s, a, d) ==
  LET close == {k \in (a + 1)..Len(s) :
                  /\ s[k] = d
                  /\ k = Len(s) \/ s[k + 1] \in WhiteSpace
                  /\ \A m \in (a + 1)..(k - 1) : s[m] \notin LineTerminator}
  IN  IF close = {} THEN 0 ELSE Min(close)

ItalicMatchEnd(s, i, d) ==
  LET a == ItalicOpen(s, i, d)
      k == IF a = 0 THEN 0 ELSE ItalicClose(s, a, d)
  IN  IF k = 0 THEN 0
      ELSE IF k = Len(s) THEN k ELSE k + 1

\* '$1<em>$2</em>$3'
ItalicReplacement(s, i, d) ==
  LET a == ItalicOpen(s, i, d)
      k == ItalicClose(s, a, d)
  IN  SubSeq(s, i, a - 1) \o TagEm \o SubSeq(s, a + 1, k - 1) \o TagEmEnd
        \o SubSeq(s, k + 1, ItalicMatchEnd(s, i, d))

ItalicPass(s, d) ==
  Substitute(s,
             [i \in 1..Len(s) |-> ItalicMatchEnd(s, i, d)],
             [i \in 1..Len(s) |->
                IF ItalicMatchEnd(s, i, d) # 0
                THEN ItalicReplacement(s, i, d) ELSE <<>>],
             1)

\* -------------------------------------------------------------------------
\* Lists: /^[\s]*[-\*]\s+( .* )/gm and /^[\s]*[0-9]+\.\s+( .* )/gm.
\* -------------------------------------------------------------------------
\* The last index of the unordered marker of a match starting at i
\* (0: none): the whole whitespace run [\s]* and then '-' or '*'.
UnorderedMarkerEnd(s, i) ==
  LET m == RunEnd(s, i, WhiteSpace) + 1
  IN  IF m <= Len(s) /\ s[m] \in {DASH, STAR} THEN m ELSE 0

\* The same for the ordered marker: the whitespace run, the whole run of
\* digits (at least one) and then '.'.
OrderedMarkerEnd(s, i) ==
  LET m == RunEnd(s, i, WhiteSpace) + 1
      e == RunEnd(s, m, Digit)
  IN  IF e >= m /\ e + 1 <= Len(s) /\ s[e + 1] = DOT THEN e + 1 ELSE 0

\* The first index of the captured item after the marker ending at m
\* (0: no match): \s+ takes the whole whitespace run, line terminators
\* included.
ListItemStart(s, m) ==
  LET w == RunEnd(s, m + 1, WhiteSpace)
  IN  IF m # 0 /\ w >= m + 1 THEN w + 1 ELSE 0

\* The greedy .* takes the rest of the line the item starts on.
ListItemEnd(s, from) ==
  LET stop == {j \in from..Len(s) : s[j] \in LineTerminator}
  IN  IF stop = {} THEN Len(s) ELSE Min(stop) - 1

ListMatchEnd(s, i, m) ==
  IF AtLineStart(s, i) /\ i <= Len(s) /\ ListItemStart(s, m) # 0
  THEN ListItemEnd(s, ListItemStart(s, m))
  ELSE 0

\* The callback: the captured item, trimmed, as a one-item list.
ListReplacement(s, m, open, close) ==
  open \o TagLi \o Trim(SubSeq(s, ListItemStart(s, m), ListItemEnd(s, ListItemStart(s, m))))
       \o TagLiEnd \o close

UnorderedListPass(s) ==
  Substitute(s,
             [i \in 1..Len(s) |-> ListMatchEnd(s, i, UnorderedMarkerEnd(s, i))],
             [i \in 1..Len(s) |->
                IF ListMatchEnd(s, i, UnorderedMarkerEnd(s, i)) # 0
                THEN ListReplacement(s, UnorderedMarkerEnd(s, i), TagUl, TagUlEnd)
                ELSE <<>>],
             1)

OrderedListPass(s) ==
  Substitute(s,
             [i \in 1..Len(s) |-> ListMatchEnd(s, i, OrderedMarkerEnd(s, i))],
             [i \in 1..Len(s) |->
                IF ListMatchEnd(s, i, OrderedMarkerEnd(s, i)) # 0
                THEN ListReplacement(s, OrderedMarkerEnd(s, i), TagOl, TagOlEnd)
                ELSE <<>>],
             1)

\* -------------------------------------------------------------------------
\* Merging adjacent lists: /<\/ul>\n?<ul>/g and /<\/ol>\n?<ol>/g.
\* -------------------------------------------------------------------------
MergeMatchEnd(s, i, close, open) ==
  LET n == i + Len(close)
  IN  IF ~StartsWithAt(s, i, close) THEN 0
      ELSE IF n <= Len(s) /\ s[n] = NL /\ StartsWithAt(s, n + 1, open)
           THEN n + Len(open)
           ELSE IF StartsWithAt(s, n, open) THEN n + Len(open) - 1 ELSE 0

MergePass(s, close, open) ==
  Substitute(s,
             [i \in 1..Len(s) |-> MergeMatchEnd(s, i, close, open)],
             [i \in 1..Len(s) |-> <<>>],
             1)

\* -------------------------------------------------------------------------
\* Paragraphs and line breaks.
\* -------------------------------------------------------------------------
\* html.split(/\n/)
RECURSIVE Split(_)
Split(s) ==
  LET nl == {j \in 1..Len(s) : s[j] = NL}
  IN  IF nl = {} THEN <<s>>
      ELSE <<SubSeq(s, 1, Min(nl) - 1)>> \o Split(SubSeq(s, Min(nl) + 1, Len(s)))

\* lines.join('')
RECURSIVE Join(_)
Join(ss) == IF ss = <<>> THEN <<>> ELSE Head(ss) \o Join(Tail(ss))

\* The startsWith tests of the map callback.
IsContainerLine(line) ==
  \E t \in {TagLi, TagUl, TagOl, TagPre, TagCode} : StartsWithAt(line, 1, t)

\* The map callback without the line-break marker: a line that continues a
\* paragraph is returned as it is.
ParagraphLineWithoutBreak(rawLine, inPar) ==
  LET line == Trim(rawLine)
  IN  IF line = <<>>
      THEN IF inPar THEN [out |-> TagPEnd, inParagraph |-> FALSE]
                    ELSE [out |-> <<>>, inParagraph |-> inPar]
      ELSE IF IsContainerLine(line)
           THEN IF inPar THEN [out |-> TagPEnd \o line, inParagraph |-> FALSE]
                         ELSE [out |-> line, inParagraph |-> inPar]
           ELSE IF ~inPar THEN [out |-> TagP \o line, inParagraph |-> TRUE]
                          ELSE [out |-> line, inParagraph |-> inPar]

\* The map callback without line = line.trim(): the tests are made on the
\* line as it was split.
ParagraphLineWithoutTrim(rawLine, inPar) ==
  LET line == rawLine
  IN  IF line = <<>>
      THEN IF inPar THEN [out |-> TagPEnd, inParagraph |-> FALSE]
                    ELSE [out |-> <<>>, inParagraph |-> inPar]
      ELSE IF IsContainerLine(line)
           THEN IF inPar THEN [out |-> TagPEnd \o line, inParagraph |-> FALSE]
                         ELSE [out |-> line, inParagraph |-> inPar]
           ELSE IF ~inPar THEN [out |-> TagP \o line, inParagraph |-> TRUE]
                          ELSE [out |-> TagBr \o line, inParagraph |-> inPar]

\* The map callback on one line: the string it returns and the value it
\* leaves in inParagraph.
ParagraphLine(rawLine, inPar) ==
  LET line == Trim(rawLine)
  IN  IF line = <<>>
      THEN IF inPar THEN [out |-> TagPEnd, inParagraph |-> FALSE]
                    ELSE [out |-> <<>>, inParagraph |-> inPar]
      ELSE IF IsContainerLine(line)
           THEN IF inPar THEN [out |-> TagPEnd \o line, inParagraph |-> FALSE]
                         ELSE [out |-> line, inParagraph |-> inPar]
           ELSE IF ~inPar THEN [out |-> TagP \o line, inParagraph |-> TRUE]
                          ELSE [out |-> TagBr \o line, inParagraph |-> inPar]

\* The end of the assembler without the closing of an open paragraph.
LeaveOpenParagraph(s, inPar) == s

\* if (inParagraph) html += '</p>'
CloseOpenParagraph(s, inPar) == IF inPar THEN s \o TagPEnd ELSE s

\* /<p>\s*<\/p>/g
EmptyParagraphMatchEnd(s, i) ==
  LET w == RunEnd(s, i + Len(TagP), WhiteSpace)
  IN  IF StartsWithAt(s, i, TagP) /\ StartsWithAt(s, w + 1, TagPEnd)
      THEN w + Len(TagPEnd)
      ELSE 0

\* The two replaces of lines 160 and 161; /<p><\/p>/g is the first one
\* with an empty whitespace run.
RemoveEmptyParagraphs(s) ==
  LET once == Substitute(s,
                         [i \in 1..Len(s) |-> EmptyParagraphMatchEnd(s, i)],
                         [i \in 1..Len(s) |-> <<>>],
                         1)
  IN  Substitute(once,
                 [i \in 1..Len(once) |->
                    IF StartsWithAt(once, i, TagP \o TagPEnd)
                    THEN i + Len(TagP \o TagPEnd) - 1 ELSE 0],
                 [i \in 1..Len(once) |-> <<>>],
                 1)

\* -------------------------------------------------------------------------
\* markdownToHtml, statement by statement.
\* -------------------------------------------------------------------------
\* value.trim() as JavaScript evaluates it: a TypeError when value is not a
\* string (null and undefined have no properties, a number has no trim).
TrimCall(value) ==
  IF value.type = "string" THEN [threw |-> FALSE, val |-> Trim(value.val)]
                           ELSE [threw |-> TRUE, val |-> <<>>]

\* The guard with the typeof test left out: trim is called on any value.
GuardOutcomeWithoutTypeof(value) ==
  LET t == TrimCall(value)
  IN  IF t.threw THEN "throw"
      ELSE IF t.val = <<>> THEN "empty" ELSE "render"

\* if (typeof markdownText !== 'string' || !markdownText.trim()) return '';
\* the right operand of || is evaluated only when the left one is false.
GuardOutcome(value) ==
  IF value.type # "string" THEN "empty"
  ELSE LET t == TrimCall(value)
       IN  IF t.threw THEN "throw"
           ELSE IF t.val = <<>> THEN "empty" ELSE "render"

\* The single-delimiter rules applied before the double-delimiter rules.
ItalicBeforeBold(s) ==
  BoldPass(BoldPass(ItalicPass(ItalicPass(s, STAR), USCORE), StarStar), UscoreUscore)

BoldStage(s) == BoldPass(BoldPass(s, StarStar), UscoreUscore)

ItalicStage(s) == ItalicPass(ItalicPass(s, STAR), USCORE)

UnorderedListStage(s) == MergePass(UnorderedListPass(s), TagUlEnd, TagUl)

OrderedListStage(s) == MergePass(OrderedListPass(s), TagOlEnd, TagOl)

\* The buffer when the paragraph assembler starts (lines 78 to 125).
BlockMarkup(value) ==
  OrderedListStage(UnorderedListStage(ItalicStage(BoldStage(
    SpeakerPass(InlineCodePass(FencePass(EscapeHtml(value))))))))

\* lines.map(...).join('') followed by the closing of an open paragraph.
RECURSIVE MapFrom(_, _, _)
MapFrom(ls, k, inPar) ==
  IF k > Len(ls) THEN CloseOpenParagraph(<<>>, inPar)
  ELSE LET r == ParagraphLine(ls[k], inPar)
       IN  r.out \o MapFrom(ls, k + 1, r.inParagraph)

\* The value markdownToHtml returns, as one function of its argument.
MarkdownToHtml(value) ==
  IF GuardOutcome(value) # "render" THEN <<>>
  ELSE RemoveEmptyParagraphs(MapFrom(Split(BlockMarkup(value)), 1, FALSE))

StringValue(chars) == [type |-> "string", val |-> chars]

\* Arguments that are not strings: undefined, null, a number.
NonStrings ==
  {[type |-> "undefined", val |-> <<>>],
   [type |-> "object", val |-> <<>>],
   [type |-> "number", val |-> <<>>]}

Guard ==
  /\ pc = "guard"
  /\ LET o == GuardOutcome(markdownText)
     IN  /\ pc' = CASE o = "empty" -> "done"
                    [] o = "throw" -> "threw"
                    [] OTHER -> "escape"
         /\ result' = <<>>
  /\ UNCHANGED <<markdownText, html, lines, lineIdx, mapped, inParagraph>>
  /\ UNCHANGED others

Escape ==
  /\ pc = "escape"
  /\ html' = EscapeHtml(markdownText)
  /\ pc' = "fence"
  /\ UNCHANGED <<markdownText, lines, lineIdx, mapped, inParagraph, result>>
  /\ UNCHANGED others

FencedCode ==
  /\ pc = "fence"
  /\ html' = FencePass(html)
  /\ pc' = "inline"
  /\ UNCHANGED <<markdownText, lines, lineIdx, mapped, inParagraph, result>>
  /\ UNCHANGED others

InlineCode ==
  /\ pc = "inline"
  /\ html' = InlineCodePass(html)
  /\ pc' = "speaker"
  /\ UNCHANGED <<markdownText, lines, lineIdx, mapped, inParagraph, result>>
  /\ UNCHANGED others

SpeakerLabels ==
  /\ pc = "speaker"
  /\ html' = SpeakerPass(html)
  /\ pc' = "bold"
  /\ UNCHANGED <<markdownText, lines, lineIdx, mapped, inParagraph, result>>
  /\ UNCHANGED others

Bold ==
  /\ pc = "bold"
  /\ html' = BoldStage(html)
  /\ pc' = "italic"
  /\ UNCHANGED <<markdownText, lines, lineIdx, mapped, inParagraph, result>>
  /\ UNCHANGED others

Italic ==
  /\ pc = "italic"
  /\ html' = ItalicStage(html)
  /\ pc' = "ul"
  /\ UNCHANGED <<markdownText, lines, lineIdx, mapped, inParagraph, result>>
  /\ UNCHANGED others

UnorderedLists ==
  /\ pc = "ul"
  /\ html' = UnorderedListStage(html)
  /\ pc' = "ol"
  /\ UNCHANGED <<markdownText, lines, lineIdx, mapped, inParagraph, result>>
  /\ UNCHANGED others

OrderedLists ==
  /\ pc = "ol"
  /\ html' = OrderedListStage(html)
  /\ pc' = "split"
  /\ UNCHANGED <<markdownText, lines, lineIdx, mapped, inParagraph, result>>
  /\ UNCHANGED others

SplitLines ==
  /\ pc = "split"
  /\ lines' = Split(html)
  /\ lineIdx' = 1
  /\ mapped' = <<>>
  /\ inParagraph' = FALSE
  /\ pc' = "map"
  /\ UNCHANGED <<markdownText, html, result>>
  /\ UNCHANGED others

MapLine ==
  /\ pc = "map"
  /\ lineIdx <= Len(lines)
  /\ LET r == ParagraphLine(lines[lineIdx], inParagraph)
     IN  /\ mapped' = Append(mapped, r.out)
         /\ inParagraph' = r.inParagraph
  /\ lineIdx' = lineIdx + 1
  /\ UNCHANGED <<markdownText, pc, html, lines, result>>
  /\ UNCHANGED others

JoinLines ==
  /\ pc = "map"
  /\ lineIdx > Len(lines)
  /\ html' = CloseOpenParagraph(Join(mapped), inParagraph)
  /\ pc' = "cleanup"
  /\ UNCHANGED <<markdownText, lines, lineIdx, mapped, inParagraph, result>>
  /\ UNCHANGED others

Cleanup ==
  /\ pc = "cleanup"
  /\ html' = RemoveEmptyParagraphs(html)
  /\ result' = html'
  /\ pc' = "done"
  /\ UNCHANGED <<markdownText, lines, lineIdx, mapped, inParagraph>>
  /\ UNCHANGED others

Next ==
  \/ Guard
  \/ Escape
  \/ FencedCode
  \/ InlineCode
  \/ SpeakerLabels
  \/ Bold
  \/ Italic
  \/ UnorderedLists
  \/ OrderedLists
  \/ SplitLines
  \/ MapLine
  \/ JoinLines
  \/ Cleanup

\* -------------------------------------------------------------------------
\* Several invocations of markdownToHtml in flight at once (the renderings
\* of the transcription, the summary and the translation).  calls[c] holds
\* the argument, the position, the state of lines.map and the return value
\* of invocation c; frames[f] holds the locals html, lines and inParagraph
\* that one execution of the function body declares (lines 78, 130, 131).
\* -------------------------------------------------------------------------
\* The locals declared once for all invocations, as module-level variables
\* would be.
SharedFrame(c) == 1

\* The frame of invocation c: let and const in the function body create
\* the locals anew at every call.
FrameOf(c) == c

\* The statements that rewrite the buffer with one replace (or one replace
\* and its merge), in the order of the source.
PassStatements == {"fence", "inline", "speaker", "bold", "italic", "ul", "ol"}

StatementPass(stmt, s) ==
  CASE stmt = "fence" -> FencePass(s)
    [] stmt = "inline" -> InlineCodePass(s)
    [] stmt = "speaker" -> SpeakerPass(s)
    [] stmt = "bold" -> BoldStage(s)
    [] stmt = "italic" -> ItalicStage(s)
    [] stmt = "ul" -> UnorderedListStage(s)
    [] stmt = "ol" -> OrderedListStage(s)

StatementAfter(stmt) ==
  CASE stmt = "fence" -> "inline"
    [] stmt = "inline" -> "speaker"
    [] stmt = "speaker" -> "bold"
    [] stmt = "bold" -> "italic"
    [] stmt = "italic" -> "ul"
    [] stmt = "ul" -> "ol"
    [] stmt = "ol" -> "split"

unchangedByCalls ==
  <<markdownText, pc, html, lines, lineIdx, mapped, inParagraph, result,
    app, transcription, summarization, translation>>

CallGuard(c) ==
  /\ calls[c].pc = "guard"
  /\ LET o == GuardOutcome(calls[c].markdownText)
     IN  calls' = [calls EXCEPT ![c].pc = CASE o = "empty" -> "done"
                                            [] o = "throw" -> "threw"
                                            [] OTHER -> "escape",
                                ![c].result = <<>>]
  /\ UNCHANGED <<frames, unchangedByCalls>>

CallEscape(c) ==
  /\ calls[c].pc = "escape"
  /\ frames' = [frames EXCEPT ![FrameOf(c)].html = EscapeHtml(calls[c].markdownText)]
  /\ calls' = [calls EXCEPT ![c].pc = "fence"]
  /\ UNCHANGED unchangedByCalls

CallPass(c) ==
  /\ calls[c].pc \in PassStatements
  /\ frames' = [frames EXCEPT ![FrameOf(c)].html = StatementPass(calls[c].pc, @)]
  /\ calls' = [calls EXCEPT ![c].pc = StatementAfter(@)]
  /\ UNCHANGED unchangedByCalls

CallSplitLines(c) ==
  /\ calls[c].pc = "split"
  /\ frames' = [frames EXCEPT ![FrameOf(c)].lines = Split(frames[FrameOf(c)].html),
                              ![FrameOf(c)].inParagraph = FALSE]
  /\ calls' = [calls EXCEPT ![c].lineIdx = 1, ![c].mapped = <<>>, ![c].pc = "map"]
  /\ UNCHANGED unchangedByCalls

CallMapLine(c) ==
  /\ calls[c].pc = "map"
  /\ calls[c].lineIdx <= Len(frames[FrameOf(c)].lines)
  /\ LET f == frames[FrameOf(c)]
         r == ParagraphLine(f.lines[calls[c].lineIdx], f.inParagraph)
     IN  /\ calls' = [calls EXCEPT ![c].mapped = Append(@, r.out),
                                    ![c].lineIdx = @ + 1]
         /\ frames' = [frames EXCEPT ![FrameOf(c)].inParagraph = r.inParagraph]
  /\ UNCHANGED unchangedByCalls

CallJoinLines(c) ==
  /\ calls[c].pc = "map"
  /\ calls[c].lineIdx > Len(frames[FrameOf(c)].lines)
  /\ frames' = [frames EXCEPT ![FrameOf(c)].html =
                  CloseOpenParagraph(Join(calls[c].mapped),
                                     frames[FrameOf(c)].inParagraph)]
  /\ calls' = [calls EXCEPT ![c].pc = "cleanup"]
  /\ UNCHANGED unchangedByCalls

CallCleanup(c) ==
  /\ calls[c].pc = "cleanup"
  /\ frames' = [frames EXCEPT ![FrameOf(c)].html = RemoveEmptyParagraphs(@)]
  /\ calls' = [calls EXCEPT ![c].result = RemoveEmptyParagraphs(frames[FrameOf(c)].html),
                            ![c].pc = "done"]
  /\ UNCHANGED unchangedByCalls

\* Any invocation in flight takes its next step.
NextConcurrent ==
  \E c \in DOMAIN calls :
    \/ CallGuard(c)
    \/ CallEscape(c)
    \/ CallPass(c)
    \/ CallSplitLines(c)
    \/ CallMapLine(c)
    \/ CallJoinLines(c)
    \/ CallCleanup(c)

\* An invocation at its call, and the frame it gets.
CallOf(value) ==
  [markdownText |-> value, pc |-> "guard", lineIdx |-> 0, mapped |-> <<>>,
   result |-> <<>>]

NewFrame == [html |-> <<>>, lines |-> <<>>, inParagraph |-> FALSE]

\* -------------------------------------------------------------------------
\* The App component (src/App.tsx) and the generation service calls of
\* src/services/geminiService.ts.  A value that may be null is a tuple:
\* Null, or Some(v) holding the value; a text is a sequence of characters.
\* A setState call is the assignment of the field of app.
\* -------------------------------------------------------------------------
Null == <<>>

Some(v) == <<v>>

\* JavaScript truthiness of a string that may be null: neither null nor ''.
Truthy(t) == t # Null /\ t[1] # <<>>

\* The URL typed into the form, by what cleanYoutubeUrl and new URL() make
\* of it: '' (empty), text no pattern matches (other), a watch URL
\* https://www.youtube.com/watch?v=ID and a short URL https://youtu.be/ID.
Urls ==
  {[kind |-> "empty", id |-> ""], [kind |-> "other", id |-> ""],
   [kind |-> "watch", id |-> "v1"], [kind |-> "short", id |-> "v2"]}

\* A cleanYoutubeUrl that takes any non-empty text for a video id.
CleanYoutubeUrlTakingAnyText(url) ==
  IF url.kind # "empty"
  THEN [cleanUrl |-> Some([kind |-> "watch", id |-> url.id]), videoId |-> Some(url.id)]
  ELSE [cleanUrl |-> Null, videoId |-> Null]

\* cleanYoutubeUrl: the canonical watch URL and the video id, or nulls.
CleanYoutubeUrl(url) ==
  IF url.kind \in {"watch", "short"}
  THEN [cleanUrl |-> Some([kind |-> "watch", id |-> url.id]), videoId |-> Some(url.id)]
  ELSE [cleanUrl |-> Null, videoId |-> Null]

\* A video title: where it was taken from, and the text or the id it holds.
Title(kind, text, id) == [kind |-> kind, text |-> text, id |-> id]

\* Lines 127 to 133: the last segment of the path of the URL, without the
\* words watch, v=, embed and shorts (nothing is left of /watch).
TitleFromUrl(url) ==
  IF url.kind = "watch" THEN Title("path", <<>>, "")
  ELSE Title("path", <<>>, url.id)

Status(text) == [text |-> text, chunk |-> 0]

\* The template of line 147 with the chunk count n.
ChunkStatus(n) == [text |-> "Transcribing... received chunk", chunk |-> n]

\* The useState initial values (lines 16 to 43), with the client the
\* effects of lines 46 to 82 leave: initialized when a key is configured,
\* null with the key dialog open otherwise.
InitialApp(client, url) ==
  [aiClient |-> client,
   isApiKeyModalOpen |-> ~client,
   youtubeUrl |-> url,
   videoId |-> Null,
   videoTitle |-> Null,
   isTranscribing |-> FALSE,
   transcriptionProgress |-> 0,
   transcriptionStatus |-> Status(""),
   transcriptionText |-> Null,
   transcriptionError |-> Null,
   isSummarizing |-> FALSE,
   summaryText |-> Null,
   summaryError |-> Null,
   isTranslating |-> FALSE,
   translationText |-> Null,
   translationError |-> Null]

\* clearPreviousResults (lines 94 to 105).
ClearPreviousResults(a) ==
  [a EXCEPT !.transcriptionText = Null,
            !.transcriptionError = Null,
            !.transcriptionProgress = 0,
            !.transcriptionStatus = Status(""),
            !.summaryText = Null,
            !.summaryError = Null,
            !.translationText = Null,
            !.translationError = Null,
            !.videoId = Null,
            !.videoTitle = Null]

\* No handleTranscription call in flight.
IdleTranscription ==
  [pc |-> "idle",
   videoId |-> Null,            \* extractedVideoId
   capturedVideoTitle |-> Null, \* videoTitle as the callback closed over it
   fullTranscript |-> <<>>,     \* let fullTranscript of the handler
   chunkCount |-> 0,            \* let chunkCount of the handler
   fullTranscription |-> <<>>,  \* let fullTranscription of the generator
   pending |-> <<>>,            \* the chunk yielded and not yet consumed
   pulled |-> 0,                \* chunks taken from result.stream
   delivered |-> <<>>,          \* the texts the generator has yielded, in order
   returned |-> Null]           \* the return value of the generator

\* The handler has returned: its locals and those of the generator are
\* gone; what the stream delivered and what the generator returned (null
\* when it threw) stay on record.
Returned(t, value) ==
  [IdleTranscription EXCEPT !.delivered = t.delivered, !.returned = value]

\* No handleSummarization or handleTranslation call in flight.
IdleRequest ==
  [pc |-> "idle",
   text |-> <<>>,       \* the transcription text sent to the service
   videoId |-> Null,    \* the video that text belongs to
   answer |-> Null]     \* the last answer of the service

\* The chunks taken from one result.stream while summaries and translations
\* are requested too (MaxChunks), and in a transcription on its own
\* (MaxStreamChunks).
MaxChunks == 1

MaxStreamChunks == 3

\* A chunk of the stream: without candidates, with a part without text,
\* with the text '', or with a text.
Chunks ==
  {[candidates |-> FALSE, text |-> Null],
   [candidates |-> TRUE, text |-> Null],
   [candidates |-> TRUE, text |-> Some(<<>>)],
   [candidates |-> TRUE, text |-> Some(<<"x">>)]}

\* The chunks of a stream that carries two different texts.
StreamChunks == Chunks \cup {[candidates |-> TRUE, text |-> Some(<<"y">>)]}

\* Lines 100 to 104: the chunk carries a non-empty text.
HasChunkText(chunk) == chunk.candidates /\ Truthy(chunk.text)

\* What makes the request or the iteration of the stream throw.
Failures == {"network error"}

\* An answer of generateContent: a failure, or a response whose first part
\* may hold a text.
Answers ==
  {[failure |-> Some("network error"), text |-> Null],
   [failure |-> Null, text |-> Null],
   [failure |-> Null, text |-> Some(<<"s">>)]}

\* Lines 167 to 169: the response carries a non-empty text.
HasAnswerText(answer) == answer.failure = Null /\ Truthy(answer.text)

LowerCase(c) ==
  CASE c = "T" -> "t" [] c = "I" -> "i" [] c = "L" -> "l" [] c = "E" -> "e"
    [] OTHER -> c

\* lines[0].toLowerCase().startsWith("title:") of line 160.
StartsWithTitle(line) ==
  /\ Len(line) >= 6
  /\ [k \in 1..6 |-> LowerCase(line[k])] = <<"t", "i", "t", "l", "e", COLON>>

\* Lines 159 to 166: the title set when the stream has ended (the title
\* stays as it is when neither branch is taken).
TitleAtEnd(title, t) ==
  LET first == Head(Split(t.fullTranscript))
  IN  IF StartsWithTitle(first)
      THEN Some(Title("first line", Trim(SubSeq(first, 7, Len(first))), ""))
      ELSE IF ~(t.capturedVideoTitle # Null
                /\ (t.capturedVideoTitle[1].text # <<>> \/ t.capturedVideoTitle[1].id # ""))
              /\ t.videoId # Null
           THEN Some(Title("default", <<>>, t.videoId[1]))
           ELSE title

unchangedByApp ==
  <<markdownText, pc, html, lines, lineIdx, mapped, inParagraph, result,
    calls, frames>>

\* The key dialog saves a key and the effect of lines 61 to 82 initializes
\* the client.
SaveApiKey ==
  /\ ~app.aiClient
  /\ app' = [app EXCEPT !.aiClient = TRUE, !.isApiKeyModalOpen = FALSE]
  /\ UNCHANGED <<transcription, summarization, translation, unchangedByApp>>

\* The user submits the form with url in its field (the field is disabled
\* and keeps its text while there is no client): setYoutubeUrl, then
\* handleTranscription up to its first await (lines 107 to 153).
StartTranscription(url) ==
  /\ transcription.pc = "idle"
  /\ app.aiClient \/ url = app.youtubeUrl
  /\ LET typed == [app EXCEPT !.youtubeUrl = url]
         clean == CleanYoutubeUrl(url)
     IN  IF ~app.aiClient
         THEN /\ app' = [typed EXCEPT
                          !.transcriptionError = Some("AI Client not initialized. Check API Key."),
                          !.isApiKeyModalOpen = TRUE]
              /\ UNCHANGED transcription
         ELSE IF url.kind = "empty"
         THEN /\ app' = [typed EXCEPT !.transcriptionError = Some("YouTube URL is empty.")]
              /\ UNCHANGED transcription
         ELSE IF clean.cleanUrl = Null \/ clean.videoId = Null
         THEN /\ app' = [typed EXCEPT
                          !.transcriptionError = Some("Invalid YouTube URL provided.")]
              /\ UNCHANGED transcription
         ELSE /\ app' = [ClearPreviousResults(typed) EXCEPT
                          !.videoId = clean.videoId,
                          !.videoTitle = Some(TitleFromUrl(url)),
                          !.isTranscribing = TRUE,
                          !.transcriptionStatus = Status("Starting transcription...")]
              /\ transcription' = [IdleTranscription EXCEPT
                                    !.pc = "streaming",
                                    !.videoId = clean.videoId,
                                    !.capturedVideoTitle = app.videoTitle]
  /\ UNCHANGED <<summarization, translation, unchangedByApp>>

\* The generator takes a chunk from result.stream (lines 99 to 110): a
\* chunk with text is reported to onProgress (lines 146 and 147), added to
\* fullTranscription and yielded; any other chunk is skipped.
ReceiveChunk(chunk) ==
  /\ transcription.pc = "streaming"
  /\ IF HasChunkText(chunk)
     THEN /\ transcription' = [transcription EXCEPT
                                !.pulled = @ + 1,
                                !.chunkCount = @ + 1,
                                !.fullTranscription = @ \o chunk.text[1],
                                !.pending = chunk.text[1],
                                !.delivered = Append(@, chunk.text[1]),
                                !.pc = "yielded"]
          /\ app' = [app EXCEPT
                      !.transcriptionStatus = ChunkStatus(transcription.chunkCount + 1)]
     ELSE /\ transcription' = [transcription EXCEPT !.pulled = @ + 1]
          /\ UNCHANGED app
  /\ UNCHANGED <<summarization, translation, unchangedByApp>>

\* The loop body showing the last chunk in place of the text so far.
ConsumeChunkShowingLast ==
  /\ transcription.pc = "yielded"
  /\ transcription' = [transcription EXCEPT
                        !.fullTranscript = @ \o transcription.pending,
                        !.pending = <<>>,
                        !.pc = "streaming"]
  /\ app' = [app EXCEPT !.transcriptionText = Some(transcription.pending)]
  /\ UNCHANGED <<summarization, translation, unchangedByApp>>

\* The body of the for await loop of the handler (lines 153 to 156).
ConsumeChunk ==
  /\ transcription.pc = "yielded"
  /\ transcription' = [transcription EXCEPT
                        !.fullTranscript = @ \o transcription.pending,
                        !.pending = <<>>,
                        !.pc = "streaming"]
  /\ app' = [app EXCEPT
              !.transcriptionText =
                Some(transcription.fullTranscript \o transcription.pending)]
  /\ UNCHANGED <<summarization, translation, unchangedByApp>>

\* The failure reported by a handler without its finally block.
StreamFailsWithoutFinally(cause) ==
  /\ transcription.pc = "streaming"
  /\ transcription' = Returned(transcription, Null)
  /\ app' = [app EXCEPT
              !.transcriptionError = Some("Transcription failed: " \o cause),
              !.transcriptionStatus = Status("Transcription failed.")]
  /\ UNCHANGED <<summarization, translation, unchangedByApp>>

\* The request or the stream throws: the generator rethrows (lines 113 to
\* 118) and the handler reports the failure (lines 170 to 177).
StreamFails(cause) ==
  /\ transcription.pc = "streaming"
  /\ transcription' = Returned(transcription, Null)
  /\ app' = [app EXCEPT
              !.transcriptionError = Some("Transcription failed: " \o cause),
              !.transcriptionStatus = Status("Transcription failed."),
              !.isTranscribing = FALSE,
              !.transcriptionProgress = 100]
  /\ UNCHANGED <<summarization, translation, unchangedByApp>>

\* The stream ends: the generator returns fullTranscription (line 112), the
\* handler leaves its loop, sets the title and the status (lines 158 to
\* 169) and runs its finally block (lines 174 to 177).
StreamEnds ==
  /\ transcription.pc = "streaming"
  /\ transcription' = Returned(transcription, Some(transcription.fullTranscription))
  /\ app' = [app EXCEPT
              !.videoTitle = TitleAtEnd(@, transcription),
              !.transcriptionStatus = Status("Transcription complete."),
              !.isTranscribing = FALSE,
              !.transcriptionProgress = 100]
  /\ UNCHANGED <<summarization, translation, unchangedByApp>>

\* handleSummarization up to its await (lines 180 to 190); summarizeText
\* passes its own guards (lines 137 to 145) and sends the request.
StartSummarization ==
  /\ summarization.pc = "idle"
  /\ IF ~app.aiClient \/ ~Truthy(app.transcriptionText)
     THEN /\ app' = [app EXCEPT
                      !.summaryError =
                        Some("AI Client not ready or no transcription available.")]
          /\ UNCHANGED summarization
     ELSE /\ app' = [app EXCEPT !.isSummarizing = TRUE,
                                 !.summaryError = Null,
                                 !.summaryText = Null]
          /\ summarization' = [pc |-> "awaiting",
                                text |-> app.transcriptionText[1],
                                videoId |-> app.videoId,
                                answer |-> Null]
  /\ UNCHANGED <<transcription, translation, unchangedByApp>>

\* generateContent answers: summarizeText returns the text or throws
\* (lines 164 to 180), and the handler stores the one or the other and
\* runs its finally block (lines 190 to 197).
SummaryResponds(answer) ==
  /\ summarization.pc = "awaiting"
  /\ summarization' = [summarization EXCEPT !.pc = "idle", !.answer = Some(answer)]
  /\ app' =
       IF HasAnswerText(answer)
       THEN [app EXCEPT !.summaryText = answer.text, !.isSummarizing = FALSE]
       ELSE [app EXCEPT
               !.summaryError =
                 Some("Summarization failed: "
                        \o (IF answer.failure # Null THEN answer.failure[1]
                            ELSE "No summary content received from API or unexpected response structure.")),
               !.isSummarizing = FALSE]
  /\ UNCHANGED <<transcription, translation, unchangedByApp>>

\* handleTranslation up to its await (lines 200 to 210).
StartTranslation ==
  /\ translation.pc = "idle"
  /\ IF ~app.aiClient \/ ~Truthy(app.transcriptionText)
     THEN /\ app' = [app EXCEPT
                      !.translationError =
                        Some("AI Client not ready or no transcription available.")]
          /\ UNCHANGED translation
     ELSE /\ app' = [app EXCEPT !.isTranslating = TRUE,
                                 !.translationError = Null,
                                 !.translationText = Null]
          /\ translation' = [pc |-> "awaiting",
                              text |-> app.transcriptionText[1],
                              videoId |-> app.videoId,
                              answer |-> Null]
  /\ UNCHANGED <<transcription, summarization, unchangedByApp>>

\* generateContent answers translateText (lines 222 to 240, 210 to 217).
TranslationResponds(answer) ==
  /\ translation.pc = "awaiting"
  /\ translation' = [translation EXCEPT !.pc = "idle", !.answer = Some(answer)]
  /\ app' =
       IF HasAnswerText(answer)
       THEN [app EXCEPT !.translationText = answer.text, !.isTranslating = FALSE]
       ELSE [app EXCEPT
               !.translationError =
                 Some("Translation failed: "
                        \o (IF answer.failure # Null THEN answer.failure[1]
                            ELSE "No translated content received from API or unexpected response structure.")),
               !.isTranslating = FALSE]
  /\ UNCHANGED <<transcription, summarization, unchangedByApp>>

NextApp ==
  \/ SaveApiKey
  \/ \E url \in Urls : StartTranscription(url)
  \/ \E chunk \in Chunks : transcription.pulled < MaxChunks /\ ReceiveChunk(chunk)
  \/ ConsumeChunk
  \/ \E cause \in Failures : StreamFails(cause)
  \/ StreamEnds
  \/ StartSummarization
  \/ \E answer \in Answers : SummaryResponds(answer)
  \/ StartTranslation
  \/ \E answer \in Answers : TranslationResponds(answer)

\* A transcription on its own: no summary and no translation is requested.
NextTranscription ==
  \/ SaveApiKey
  \/ \E url \in Urls : StartTranscription(url)
  \/ \E chunk \in StreamChunks :
       transcription.pulled < MaxStreamChunks /\ ReceiveChunk(chunk)
  \/ ConsumeChunk
  \/ \E cause \in Failures : StreamFails(cause)
  \/ StreamEnds

\* No other invocation runs and the application has just been mounted.
NothingElseRuns ==
  /\ calls = <<>>
  /\ frames = <<>>
  /\ app = InitialApp(FALSE, [kind |-> "empty", id |-> ""])
  /\ transcription = IdleTranscription
  /\ summarization = IdleRequest
  /\ translation = IdleRequest

\* No call of markdownToHtml is modelled by the single-call variables.
NoSingleCall ==
  /\ markdownText = [type |-> "string", val |-> <<>>]
  /\ pc = "done"
  /\ html = <<>>
  /\ lines = <<>>
  /\ lineIdx = 0
  /\ mapped = <<>>
  /\ inParagraph = FALSE
  /\ result = <<>>

\* The state at the call of markdownToHtml(value).
Called(value) ==
  /\ markdownText = value
  /\ pc = "guard"
  /\ html = <<>>
  /\ lines = <<>>
  /\ lineIdx = 0
  /\ mapped = <<>>
  /\ inParagraph = FALSE
  /\ result = <<>>
  /\ NothingElseRuns

\* -------------------------------------------------------------------------
\* Inputs.  An input is a concatenation of at most n fragments of a set F.
\* -------------------------------------------------------------------------
RECURSIVE Concats(_, _)
Concats(F, n) ==
  IF n = 0 THEN {<<>>}
  ELSE LET shorter == Concats(F, n - 1)
       IN  shorter \cup {p \o f : p \in shorter, f \in F}

Contains(s, t) == \E i \in 1..Len(s) : StartsWithAt(s, i, t)

\* The number of (possibly overlapping) occurrences of t in s.
Count(s, t) == Cardinality({i \in 1..Len(s) : StartsWithAt(s, i, t)})

ScriptTag == <<"<", "s", "c", "r", "i", "p", "t", ">">>

MaxSafetyFragments == 3

SafetyFragments ==
  {ScriptTag, <<LT>>, <<AMP>>, <<DQUOTE>>, <<SQUOTE>>, <<BT>>, <<STAR>>,
   <<NL>>, <<DASH, SP>>, <<"a">>}

SafetyInputs ==
  {StringValue(t) : t \in Concats(SafetyFragments, MaxSafetyFragments)}
    \cup NonStrings

Init == \E value \in SafetyInputs : Called(value)

Spec == Init /\ [][Next]_vars

Tags ==
  {TagP, TagPEnd, TagBr, TagStrong, TagStrongEnd, TagEm, TagEmEnd, TagCode,
   TagCodeEnd, TagPre, TagPreEnd, TagUl, TagUlEnd, TagOl, TagOlEnd, TagLi,
   TagLiEnd}

Entities == {EntAmp, EntLt, EntGt, EntQuot, EntApos}

NoLiveMarkup(out) ==
  \A i \in 1..Len(out) :
    /\ out[i] = LT => \E t \in Tags : StartsWithAt(out, i, t)
    /\ out[i] = AMP => \E e \in Entities : StartsWithAt(out, i, e)
    /\ out[i] \notin {DQUOTE, SQUOTE}

\* -------------------------------------------------------------------------
\* C1: no character of the input reaches the buffer or the returned markup
\* as live markup.  After the escaper has run, every '<' starts one of the
\* tags of the container vocabulary, every '&' starts one of the escaper's
\* character references, and neither quote character occurs; an input that
\* contains <script> never yields a result that contains <script>.
\* -------------------------------------------------------------------------
C1_NoLiveMarkup ==
  /\ pc \notin {"guard", "escape"} => NoLiveMarkup(html)
  /\ pc = "done" =>
       /\ NoLiveMarkup(result)
       /\ markdownText.type = "string" /\ Contains(markdownText.val, ScriptTag)
            => ~Contains(result, ScriptTag)

C1_Witness ==
  /\ pc = "done"
  /\ Contains(markdownText.val, ScriptTag)
  /\ Contains(markdownText.val, <<STAR>>)
  /\ Contains(result, EntLt \o <<"s", "c", "r", "i", "p", "t">> \o EntGt)

Statements ==
  {"guard", "escape", "fence", "inline", "speaker", "bold", "italic", "ul",
   "ol", "split", "map", "cleanup", "done"}

\* -------------------------------------------------------------------------
\* C2: markdownToHtml never throws.  A call is always at one of the
\* statements of the function or has returned, never in the state an
\* exception leaves it in, and an argument that is not a string yields the
\* empty string.
\* -------------------------------------------------------------------------
C2_NeverThrows ==
  /\ pc \in Statements
  /\ pc = "done" /\ markdownText.type # "string" => result = <<>>

C2_Witness ==
  /\ pc = "done"
  /\ markdownText.type = "object"
  /\ result = <<>>

\* -------------------------------------------------------------------------
\* Code regions.  Inputs built from fences, single backticks, a bold span,
\* an inline-code span, text, newlines and a list line.
\* -------------------------------------------------------------------------
MaxCodeFragments == 4

CodeFragments ==
  {Fence, <<BT>>, <<STAR, STAR, "a", STAR, STAR>>, <<BT, "b", BT>>, <<"a">>,
   <<NL>>, <<NL, DASH, SP, "b">>, <<SP>>}

CodeInputs ==
  {StringValue(t) : t \in Concats(CodeFragments, MaxCodeFragments)}

InitCode == \E value \in CodeInputs : Called(value)

SpecCode == InitCode /\ [][Next]_vars

\* The start indices of the matches a global replace takes, scanning from
\* index i: ends[m] is the last index of the match starting at m, 0 if none.
RECURSIVE MatchStarts(_, _, _)
MatchStarts(n, ends, i) ==
  LET hits == {m \in i..n : ends[m] # 0}
  IN  IF hits = {} THEN {}
      ELSE {Min(hits)} \cup MatchStarts(n, ends, ends[Min(hits)] + 1)

\* The fenced regions of the escaped text e: the matches of the fence pass.
FenceStarts(e) ==
  MatchStarts(Len(e), [i \in 1..Len(e) |-> FenceMatchEnd(e, i)], 1)

\* The text a fence match starting at i encloses, trimmed.
FenceContent(e, i) == Trim(SubSeq(e, i + 3, FenceMatchEnd(e, i) - 3))

\* The code-block container that renders content verbatim.
CodeBlock(content) == TagPre \o TagCode \o content \o TagCodeEnd \o TagPreEnd

HasAny(s, C) == \E k \in 1..Len(s) : s[k] \in C

Escaped == EscapeChars(markdownText.val)

\* -------------------------------------------------------------------------
\* C3: the content of a fenced code block is rendered verbatim.  Whenever a
\* fence pair of the input encloses one line of text that holds strong or
\* emphasis delimiters (and no backtick), the returned markup holds the
\* code-block container with exactly that text, delimiters included.
\* -------------------------------------------------------------------------
C3_FencedVerbatim ==
  pc = "done" =>
    \A i \in FenceStarts(Escaped) :
      LET content == FenceContent(Escaped, i)
      IN  HasAny(content, {STAR, USCORE}) /\ ~HasAny(content, {BT, NL})
            => Contains(result, CodeBlock(content))

\* -------------------------------------------------------------------------
\* C4: single backticks inside a fenced code block are not separately
\* interpreted.  Whenever a fence pair of the input encloses one line of
\* text that holds a pair of single backticks (and no emphasis delimiter),
\* the returned markup holds the code-block container with exactly that
\* text, and no inline-code container inside it.
\* -------------------------------------------------------------------------
C4_FencedBackticksLiteral ==
  pc = "done" =>
    \A i \in FenceStarts(Escaped) :
      LET content == FenceContent(Escaped, i)
      IN  InlineCodePass(content) # content /\ ~HasAny(content, {STAR, USCORE, NL})
            => Contains(result, CodeBlock(content))

InlineCodeStarts(f) ==
  MatchStarts(Len(f), [i \in 1..Len(f) |-> InlineCodeMatchEnd(f, i)], 1)

\* -------------------------------------------------------------------------
\* C5: the content of an inline-code span is opaque to later passes.
\* Whenever the input holds no fence and a single-backtick pair encloses
\* one line of text with strong or emphasis delimiters, the returned markup
\* holds the inline-code container with exactly that text.
\* -------------------------------------------------------------------------
C5_InlineCodeOpaque ==
  pc = "done" /\ ~Contains(Escaped, Fence) =>
    \A i \in InlineCodeStarts(Escaped) :
      LET content == SubSeq(Escaped, i + 1, InlineCodeMatchEnd(Escaped, i) - 1)
      IN  HasAny(content, {STAR, USCORE}) /\ ~HasAny(content, {NL})
            => Contains(result, TagCode \o content \o TagCodeEnd)

BlockTags ==
  {TagUl, TagUlEnd, TagOl, TagOlEnd, TagLi, TagLiEnd, TagP, TagPEnd, TagBr}

\* The text from the code-block opener at index i of out up to its closer
\* (to the end of out when there is no closer).
CodeBlockRegion(out, i) ==
  LET close == {j \in i..Len(out) : StartsWithAt(out, j, TagCodeEnd \o TagPreEnd)}
  IN  IF close = {} THEN SubSeq(out, i, Len(out))
      ELSE SubSeq(out, i, Min(close))

HasMultiLineFence(e) ==
  \E i \in FenceStarts(e) :
    /\ HasAny(FenceContent(e, i), {NL})
    /\ ~HasAny(FenceContent(e, i), {STAR, USCORE, BT})

\* -------------------------------------------------------------------------
\* C6: the block passes never act on the inside of a code block.  Whenever
\* a fence pair of the input encloses several lines, nothing between the
\* opening and the closing tags of a code-block container of the returned
\* markup is a list container, a list item, a paragraph opener or closer,
\* or a line-break marker.
\* -------------------------------------------------------------------------
C6_CodeBlockUntouchedByBlockPasses ==
  pc = "done" /\ HasMultiLineFence(Escaped) =>
    \A i \in 1..Len(result) :
      StartsWithAt(result, i, TagPre \o TagCode) =>
        \A t \in BlockTags : ~Contains(CodeBlockRegion(result, i), t)

\* The buffer f holds a marker the fence pass left alone, and no backtick
\* comes before it.
StartsUnterminatedFence(f) ==
  \E i \in 1..Len(f) :
    /\ StartsWithAt(f, i, Fence)
    /\ \A k \in 1..(i - 1) : f[k] # BT

\* -------------------------------------------------------------------------
\* C7: an unterminated fence is literal text.  Whenever the fence pass
\* leaves a triple-backtick marker in the buffer (an opening marker without
\* a closing one), the returned markup holds every such marker literally,
\* opens no code-block container beyond those of the closed fence pairs,
\* and closes every code container it opens.
\* -------------------------------------------------------------------------
C7_UnterminatedFenceLiteral ==
  pc = "done" /\ StartsUnterminatedFence(FencePass(Escaped)) =>
    /\ Count(result, Fence) = Count(FencePass(Escaped), Fence)
    /\ Count(result, TagPre) = Count(FencePass(Escaped), TagPre)
    /\ Count(result, TagCode) = Count(result, TagCodeEnd)
    /\ Count(result, TagPre) = Count(result, TagPreEnd)

\* -------------------------------------------------------------------------
\* Speaker labels.  Inputs built from two labels, the bold delimiter, a
\* plain rest of line, plain text and newlines.
\* -------------------------------------------------------------------------
MaxSpeakerFragments == 4

SpeakerOne == SpeakerWord \o <<SP, "1", COLON>>

SpeakerAb == SpeakerWord \o <<SP, "A", "b", COLON>>

SpeakerFragments ==
  {SpeakerOne, SpeakerAb, StarStar, <<SP, "h", "i">>, <<NL>>, <<"x">>}

SpeakerInputs ==
  {StringValue(t) : t \in Concats(SpeakerFragments, MaxSpeakerFragments)}

InitSpeaker == \E value \in SpeakerInputs : Called(value)

SpecSpeaker == InitSpeaker /\ [][Next]_vars

\* Text without markup characters.
PlainChars == AlphaNum \cup {SP, COLON}

IsPlain(s) == \A k \in 1..Len(s) : s[k] \in PlainChars

\* The index of the colon of a label "Speaker T:" that starts at index p of
\* line l, T a non-empty alphanumeric token (0: no label there).
LabelColon(l, p) ==
  LET q == p + Len(SpeakerWord) + 1
      stop == {j \in q..Len(l) : l[j] \notin AlphaNum}
  IN  IF /\ StartsWithAt(l, p, SpeakerWord \o <<SP>>)
         /\ stop # {} /\ Min(stop) > q /\ l[Min(stop)] = COLON
      THEN Min(stop)
      ELSE 0

\* l is "Speaker T:" followed by a plain rest.
IsBareLabelLine(l) ==
  LabelColon(l, 1) # 0 /\ IsPlain(SubSeq(l, LabelColon(l, 1) + 1, Len(l)))

\* l is "**Speaker T:**" followed by a plain rest.
IsBoldLabelLine(l) ==
  /\ StartsWithAt(l, 1, StarStar)
  /\ LabelColon(l, 3) # 0
  /\ StartsWithAt(l, LabelColon(l, 3) + 1, StarStar)
  /\ IsPlain(SubSeq(l, LabelColon(l, 3) + 3, Len(l)))

\* What a line is to render as: the label in one strong-emphasis container,
\* then the plain rest; a plain line as it is.
ExpectedLabelLine(l) ==
  IF IsBareLabelLine(l)
  THEN TagStrong \o SubSeq(l, 1, LabelColon(l, 1)) \o TagStrongEnd
         \o SubSeq(l, LabelColon(l, 1) + 1, Len(l))
  ELSE IF IsBoldLabelLine(l)
       THEN TagStrong \o SubSeq(l, 3, LabelColon(l, 3)) \o TagStrongEnd
              \o SubSeq(l, LabelColon(l, 3) + 3, Len(l))
       ELSE l

\* Every line of the text is a label line in one of the two forms or plain
\* text, and at least one is a label line.
IsLabelText(text) ==
  LET ls == Split(text)
  IN  /\ \A k \in 1..Len(ls) :
           IsBareLabelLine(ls[k]) \/ IsBoldLabelLine(ls[k]) \/ IsPlain(ls[k])
      /\ \E k \in 1..Len(ls) : IsBareLabelLine(ls[k]) \/ IsBoldLabelLine(ls[k])

\* -------------------------------------------------------------------------
\* C8: speaker label idempotence.  When every line of the input is plain
\* text or a label line, bare (Speaker T: rest) or bold (**Speaker T:**
\* rest) with a plain rest, each label line is returned as one
\* strong-emphasis container holding Speaker T: followed by the plain rest,
\* the same for both forms, and no strong-emphasis container is opened
\* inside another.
\* -------------------------------------------------------------------------
C8_SpeakerLabelOnce ==
  pc = "done" /\ IsLabelText(markdownText.val) =>
    LET ls == Split(markdownText.val)
        expected == [k \in 1..Len(ls) |-> ExpectedLabelLine(ls[k])]
    IN  /\ result = RemoveEmptyParagraphs(MapFrom(expected, 1, FALSE))
        /\ ~Contains(result, TagStrong \o TagStrong)
        /\ Count(result, TagStrong) =
             Cardinality({k \in 1..Len(ls) :
                            IsBareLabelLine(ls[k]) \/ IsBoldLabelLine(ls[k])})

C8_Witness ==
  /\ pc = "done"
  /\ markdownText.val = StarStar \o SpeakerOne \o StarStar \o <<SP, "h", "i">>
  /\ result = TagP \o TagStrong \o SpeakerOne \o TagStrongEnd \o <<SP, "h", "i">>
                \o TagPEnd

\* -------------------------------------------------------------------------
\* Lists.  Inputs built from unordered and ordered list lines, with and
\* without item text, and newlines.
\* -------------------------------------------------------------------------
MaxListFragments == 5

ListFragments ==
  {<<DASH, SP, "a">>, <<STAR, SP, "b">>, <<DASH, SP>>, <<"1", DOT, SP, "a">>,
   <<"1", "2", DOT, SP>>, <<NL>>}

ListInputs ==
  {StringValue(t) : t \in Concats(ListFragments, MaxListFragments)}

InitLists == \E value \in ListInputs : Called(value)

SpecLists == InitLists /\ [][Next]_vars

\* Item text that no inline pass rewrites.
ItemChars == AlphaNum \cup {SP, DASH, DOT}

\* The index of the first character after the list marker and the space
\* that follows it on line l (0: l does not start with such a marker).
UnorderedItemStart(l) ==
  IF Len(l) >= 2 /\ l[1] \in {DASH, STAR} /\ l[2] = SP THEN 3 ELSE 0

OrderedItemStart(l) ==
  LET stop == {j \in 1..Len(l) : l[j] \notin Digit}
  IN  IF /\ stop # {} /\ Min(stop) > 1
         /\ l[Min(stop)] = DOT
         /\ Min(stop) + 1 <= Len(l) /\ l[Min(stop) + 1] = SP
      THEN Min(stop) + 2
      ELSE 0

\* "ul", "ol" or "none": the kind of list line l is, its item text being
\* made of ItemChars (possibly empty).
ListKind(l) ==
  IF UnorderedItemStart(l) # 0 /\ \A k \in 3..Len(l) : l[k] \in ItemChars
  THEN "ul"
  ELSE IF /\ OrderedItemStart(l) # 0
          /\ \A k \in OrderedItemStart(l)..Len(l) : l[k] \in ItemChars
       THEN "ol"
       ELSE "none"

\* The list item a list line is to become.
ExpectedItem(l) ==
  LET from == IF ListKind(l) = "ul" THEN 3 ELSE OrderedItemStart(l)
  IN  TagLi \o Trim(SubSeq(l, from, Len(l))) \o TagLiEnd

\* One container per maximal run of lines of one kind, from line k on.
RECURSIVE ExpectedLists(_, _)
ExpectedLists(ls, k) ==
  IF k > Len(ls) THEN <<>>
  ELSE LET diff == {j \in k..Len(ls) : ListKind(ls[j]) # ListKind(ls[k])}
           last == IF diff = {} THEN Len(ls) ELSE Min(diff) - 1
           items == Join([j \in 1..(last - k + 1) |-> ExpectedItem(ls[k + j - 1])])
       IN  (IF ListKind(ls[k]) = "ul" THEN TagUl \o items \o TagUlEnd
                                      ELSE TagOl \o items \o TagOlEnd)
             \o ExpectedLists(ls, last + 1)

AllListLines(ls) == \A k \in 1..Len(ls) : ListKind(ls[k]) # "none"

\* -------------------------------------------------------------------------
\* C9: list merging.  An input made of n >= 1 lines that all carry an
\* unordered marker, or that all carry an ordered marker, is returned as
\* exactly one list container of that kind holding one item per line, in
\* the order of the lines.
\* -------------------------------------------------------------------------
C9_ListRunIsOneContainer ==
  pc = "done" =>
    LET ls == Split(markdownText.val)
    IN  AllListLines(ls) /\ (\A k \in 1..Len(ls) : ListKind(ls[k]) = ListKind(ls[1]))
          => /\ result = ExpectedLists(ls, 1)
             /\ Count(result, TagLi) = Len(ls)
             /\ Count(result, TagUl) + Count(result, TagOl) = 1

\* -------------------------------------------------------------------------
\* C10: mixed list kinds are not merged.  An input made of list lines in
\* which the kind changes from one line to the next at least once is
\* returned as one container per maximal run of lines of one kind, each
\* holding the items of its own lines, so that a new container starts at
\* every change of kind.
\* -------------------------------------------------------------------------
C10_MixedKindsAreSiblings ==
  pc = "done" =>
    LET ls == Split(markdownText.val)
    IN  AllListLines(ls)
          /\ (\E k \in 1..(Len(ls) - 1) : ListKind(ls[k]) # ListKind(ls[k + 1]))
          => result = ExpectedLists(ls, 1)

\* -------------------------------------------------------------------------
\* Paragraphs.  Inputs built from lines of plain text, newlines, spaces and
\* tabs.
\* -------------------------------------------------------------------------
MaxParagraphFragments == 5

ParagraphFragments ==
  {<<"a">>, <<NL, "b", SP, "c">>, <<NL>>, <<SP>>, <<TAB>>}

ParagraphInputs ==
  {StringValue(t) : t \in Concats(ParagraphFragments, MaxParagraphFragments)}

InitParagraphs == \E value \in ParagraphInputs : Called(value)

SpecParagraphs == InitParagraphs /\ [][Next]_vars

\* A line that holds nothing but whitespace.
IsBlank(l) == \A k \in 1..Len(l) : l[k] \in {SP, TAB}

\* A line of words: letters, spaces and tabs, at least one letter.
IsPlainText(l) ==
  /\ \A k \in 1..Len(l) : l[k] \in Letter \cup {SP, TAB}
  /\ \E k \in 1..Len(l) : l[k] \in Letter

\* The text of a line: the line without the whitespace around it.
LineText(l) ==
  LET ink == {k \in 1..Len(l) : l[k] \notin {SP, TAB}}
  IN  SubSeq(l, Min(ink), Max(ink))

\* The last line of the maximal run of non-blank lines that starts at k.
RunLast(ls, k) ==
  LET blank == {j \in k..Len(ls) : IsBlank(ls[j])}
  IN  IF blank = {} THEN Len(ls) ELSE Min(blank) - 1

\* The texts of lines k..last joined by the line-break marker.
RECURSIVE BrokenLines(_, _, _)
BrokenLines(ls, k, last) ==
  IF k = last THEN LineText(ls[k])
  ELSE LineText(ls[k]) \o TagBr \o BrokenLines(ls, k + 1, last)

\* One paragraph container per maximal run of non-blank lines, from line k
\* on, in the order of the lines.
RECURSIVE ExpectedParagraphs(_, _)
ExpectedParagraphs(ls, k) ==
  IF k > Len(ls) THEN <<>>
  ELSE IF IsBlank(ls[k]) THEN ExpectedParagraphs(ls, k + 1)
       ELSE TagP \o BrokenLines(ls, k, RunLast(ls, k)) \o TagPEnd
              \o ExpectedParagraphs(ls, RunLast(ls, k) + 1)

\* The lines that start a run of non-blank lines.
RunStarts(ls) ==
  {k \in 1..Len(ls) : ~IsBlank(ls[k]) /\ (k = 1 \/ IsBlank(ls[k - 1]))}

\* -------------------------------------------------------------------------
\* C11: paragraph and line-break assembly.  For an input whose lines are
\* plain text or blank, the returned markup is, in input order, one
\* paragraph container per maximal run of consecutive non-blank lines, its
\* content the texts of the lines of the run joined by the line-break
\* marker: as many paragraph openers as runs, and one marker for every line
\* of a run after its first.
\* -------------------------------------------------------------------------
C11_ParagraphPerRun ==
  pc = "done" /\ markdownText.type = "string" =>
    LET ls == Split(markdownText.val)
    IN  (\A k \in 1..Len(ls) : IsBlank(ls[k]) \/ IsPlainText(ls[k]))
          => /\ result = ExpectedParagraphs(ls, 1)
             /\ Count(result, TagP) = Cardinality(RunStarts(ls))
             /\ Count(result, TagPEnd) = Cardinality(RunStarts(ls))
             /\ Count(result, TagBr) =
                  Cardinality({k \in 1..Len(ls) : ~IsBlank(ls[k])})
                    - Cardinality(RunStarts(ls))

\* line one, line two, a blank line, line three.
C11_Witness ==
  /\ pc = "done"
  /\ markdownText.val = <<"a", NL, "b", SP, "c", NL, NL, "b", SP, "c">>
  /\ result = TagP \o <<"a">> \o TagBr \o <<"b", SP, "c">> \o TagPEnd
                \o TagP \o <<"b", SP, "c">> \o TagPEnd

\* -------------------------------------------------------------------------
\* Whitespace and degenerate constructs.  Inputs built from spaces, tabs,
\* newlines, a letter and bare delimiters and markers.
\* -------------------------------------------------------------------------
MaxBlankFragments == 3

BlankFragments ==
  {<<SP>>, <<TAB>>, <<NL>>, <<"a">>, Fence, <<BT>>, StarStar, <<USCORE>>,
   <<DASH>>, <<"1", DOT>>}

BlankInputs ==
  {StringValue(t) : t \in Concats(BlankFragments, MaxBlankFragments)}

InitBlank == \E value \in BlankInputs : Called(value)

SpecBlank == InitBlank /\ [][Next]_vars

\* Every character of s is a space, a tab or a newline (none when s = '').
IsWhitespaceOnly(s) == \A k \in 1..Len(s) : s[k] \in {SP, TAB, NL}

\* -------------------------------------------------------------------------
\* C12: markdownToHtml returns the empty string for the empty string and
\* for every input made only of spaces, tabs and newlines, and a non-empty
\* string for every input that holds a character that is not whitespace.
\* -------------------------------------------------------------------------
C12_EmptyIffWhitespaceOnly ==
  pc = "done" /\ markdownText.type = "string" =>
    (result = <<>> <=> IsWhitespaceOnly(markdownText.val))

C12_Witness ==
  /\ pc = "done"
  /\ markdownText.val = <<SP, NL, TAB>>
  /\ result = <<>>

\* -------------------------------------------------------------------------
\* The escaper.  Inputs built from the five characters it replaces, a
\* letter, and text that spells the tail of a character reference.
\* -------------------------------------------------------------------------
MaxEscapeFragments == 4

EscapeFragments ==
  {<<AMP>>, <<LT>>, <<GT>>, <<DQUOTE>>, <<SQUOTE>>, <<"a">>,
   <<"l", "t", ";">>}

EscapeInputs ==
  {StringValue(t) : t \in Concats(EscapeFragments, MaxEscapeFragments)}

InitEscape == \E value \in EscapeInputs : Called(value)

SpecEscape == InitEscape /\ [][Next]_vars

\* The character reference of one of the five characters, any other
\* character as it is.
CharacterReference(c) ==
  CASE c = AMP -> EntAmp
    [] c = LT -> EntLt
    [] c = GT -> EntGt
    [] c = DQUOTE -> EntQuot
    [] c = SQUOTE -> EntApos
    [] OTHER -> <<c>>

\* One pass over s from left to right, character by character.
RECURSIVE PerCharacter(_)
PerCharacter(s) ==
  IF s = <<>> THEN <<>>
  ELSE CharacterReference(Head(s)) \o PerCharacter(Tail(s))

\* -------------------------------------------------------------------------
\* C13: escapeHtml replaces every occurrence of each of & < > " ' by its
\* character reference and leaves every other character as it is.  The buffer
\* escapeHtml returns is the input with every character substituted once,
\* from left to right: an ampersand that a substitution introduces is not
\* escaped again.
\* -------------------------------------------------------------------------
C13_EscapeIsPerCharacter ==
  pc = "fence" => html = PerCharacter(markdownText.val)

\* The input <&lt; becomes &lt;&amp;lt;
C13_Witness ==
  /\ pc = "fence"
  /\ markdownText.val = <<LT, AMP, "l", "t", ";">>
  /\ html = EntLt \o EntAmp \o <<"l", "t", ";">>

\* -------------------------------------------------------------------------
\* Delimiters.  Inputs built from single delimiter characters, a letter,
\* spaces and newlines.
\* -------------------------------------------------------------------------
MaxDelimiterFragments == 5

DelimiterFragments == {<<STAR>>, <<USCORE>>, <<BT>>, <<"a">>, <<SP>>, <<NL>>}

DelimiterInputs ==
  {StringValue(t) : t \in Concats(DelimiterFragments, MaxDelimiterFragments)}

InitDelimiters == \E value \in DelimiterInputs : Called(value)

SpecDelimiters == InitDelimiters /\ [][Next]_vars

\* The indices of s that hold a delimiter character.
DelimiterIndices(s) == {k \in 1..Len(s) : s[k] \in {STAR, USCORE, BT}}

\* The star at index k of s is a list marker: only whitespace before it on
\* its line, and whitespace right after it.
IsListMarkerStar(s, k) ==
  /\ s[k] = STAR
  /\ k + 1 <= Len(s) /\ s[k + 1] \in {SP, TAB, NL}
  /\ \E j \in 0..(k - 1) :
       /\ j = 0 \/ s[j] = NL
       /\ \A m \in (j + 1)..(k - 1) : s[m] \in {SP, TAB}

\* s holds exactly one delimiter and nothing it could pair with: its
\* delimiter characters form one run, which is one of * ** _ __ or a
\* single backtick, and the run is not a list marker.
HasOneLoneDelimiter(s) ==
  LET D == DelimiterIndices(s)
  IN  /\ D # {}
      /\ Max(D) - Min(D) + 1 = Cardinality(D)
      /\ \A k \in D : s[k] = s[Min(D)]
      /\ Cardinality(D) <= (IF s[Min(D)] = BT THEN 1 ELSE 2)
      /\ ~(Cardinality(D) = 1 /\ IsListMarkerStar(s, Min(D)))

\* -------------------------------------------------------------------------
\* C15: unmatched delimiters stay literal.  The conversion never raises,
\* and when the input holds one delimiter (* ** _ __ or a single backtick)
\* and no partner for it, the returned markup holds that delimiter
\* literally and no strong-emphasis, emphasis or inline-code container.
\* -------------------------------------------------------------------------
C15_LoneDelimiterLiteral ==
  /\ pc # "threw"
  /\ pc = "done" /\ HasOneLoneDelimiter(markdownText.val) =>
       LET s == markdownText.val
           D == DelimiterIndices(s)
       IN  /\ Contains(result, SubSeq(s, Min(D), Max(D)))
           /\ ~Contains(result, TagStrong)
           /\ ~Contains(result, TagEm)
           /\ ~Contains(result, TagCode)

\* -------------------------------------------------------------------------
\* The paragraph assembler.  Inputs built from text, spaces and lines of
\* every class: a blank line, a text line, list lines of both kinds, a
\* fenced block, an inline-code span, and a bold span.
\* -------------------------------------------------------------------------
MaxAssemblerFragments == 3

AssemblerFragments ==
  {<<"a">>, <<SP>>, <<NL>>, <<NL, "a">>, <<NL, DASH, SP, "b">>,
   <<NL, "1", DOT, SP, "b">>, Fence \o <<"c">> \o Fence, <<BT, "c", BT>>,
   <<STAR, STAR, "a", STAR, STAR>>}

AssemblerInputs ==
  {StringValue(t) : t \in Concats(AssemblerFragments, MaxAssemblerFragments)}

InitAssembler == \E value \in AssemblerInputs : Called(value)

SpecAssembler == InitAssembler /\ [][Next]_vars

\* The indices of out where the text t starts.
Starts(out, t) == {i \in 1..Len(out) : StartsWithAt(out, i, t)}

\* The paragraph opener or closer nearest before index i of out (0: none).
MarkerBefore(out, i) ==
  LET before == {j \in Starts(out, TagP) \cup Starts(out, TagPEnd) : j < i}
  IN  IF before = {} THEN 0 ELSE Max(before)

\* A paragraph is open at index i of out: the nearest opener or closer
\* before i is an opener.
InOpenParagraph(out, i) ==
  MarkerBefore(out, i) # 0 /\ StartsWithAt(out, MarkerBefore(out, i), TagP)

\* The number of paragraphs left open at the end of out.
ParagraphDepth(out) ==
  Cardinality(Starts(out, TagP)) - Cardinality(Starts(out, TagPEnd))

\* An opener comes only when no paragraph is open, a closer and a
\* line-break marker only when one is.
ParagraphsAlternate(out) ==
  /\ \A i \in Starts(out, TagP) : ~InOpenParagraph(out, i)
  /\ \A i \in Starts(out, TagPEnd) : InOpenParagraph(out, i)
  /\ \A i \in Starts(out, TagBr) : InOpenParagraph(out, i)

\* -------------------------------------------------------------------------
\* C17: the paragraph assembler keeps paragraph containers balanced.  While
\* the lines are visited, openers and closers alternate in what has been
\* emitted, a line-break marker lies only in an open paragraph, and a
\* paragraph is open exactly when inParagraph is set; after the last line
\* an open paragraph is closed, so the buffer and the returned markup hold
\* as many closers as openers and no paragraph inside another.
\* -------------------------------------------------------------------------
C17_ParagraphsBalanced ==
  /\ pc = "map" =>
       /\ ParagraphsAlternate(Join(mapped))
       /\ ParagraphDepth(Join(mapped)) = (IF inParagraph THEN 1 ELSE 0)
  /\ pc \in {"cleanup", "done"} =>
       /\ ParagraphsAlternate(html)
       /\ ParagraphDepth(html) = 0
  /\ pc = "done" /\ markdownText.type = "string" => result = html

\* A paragraph with a line break, still open after the last line.
C17_Witness ==
  /\ pc = "done"
  /\ inParagraph
  /\ Count(result, TagP) = 1
  /\ Count(result, TagBr) = 1
  /\ Count(result, TagPEnd) = 1

\* The line holds nothing but whitespace.
IsEmptyAfterTrim(line) == \A k \in 1..Len(line) : line[k] \in WhiteSpace

\* The map callback has just returned for line k.
Visited(k) == pc = "map" /\ lineIdx = k /\ lineIdx' = k + 1

\* -------------------------------------------------------------------------
\* C18: in the paragraph assembler a line that is empty after trimming
\* closes the open paragraph if there is one, emitting only the paragraph
\* closer and leaving no paragraph open, and otherwise emits nothing and
\* leaves the state as it is: a blank line opens no paragraph and emits no
\* line-break marker.
\* -------------------------------------------------------------------------
C18_BlankLineStep ==
  [][\A k \in 1..Len(lines) :
       Visited(k) /\ IsEmptyAfterTrim(lines[k]) =>
         IF inParagraph
         THEN mapped' = Append(mapped, TagPEnd) /\ inParagraph' = FALSE
         ELSE mapped' = Append(mapped, <<>>) /\ inParagraph' = FALSE]_vars

\* A blank line of spaces has just closed a paragraph.
C18_Witness ==
  /\ pc = "map"
  /\ lineIdx = 3
  /\ lines[2] = <<SP>>
  /\ mapped = <<TagP \o <<"a">>, TagPEnd>>
  /\ ~inParagraph

\* The lines visited so far, trimmed as the callback trims them.
VisitedLine(k) == Trim(lines[k])

\* The line starts a list container or a code-block container.
StartsBlockContainer(line) ==
  \E t \in {TagUl, TagOl, TagPre} : StartsWithAt(line, 1, t)

\* What the callback returned before line k leaves a paragraph open.
OpenBeforeLine(k) == ParagraphDepth(Join(SubSeq(mapped, 1, k - 1))) = 1

\* No list container and no code-block container starts inside a paragraph.
NoBlockInParagraph(out) ==
  \A t \in {TagUl, TagOl, TagPre} :
    \A i \in Starts(out, t) : ~InOpenParagraph(out, i)

\* -------------------------------------------------------------------------
\* C19: a line that starts a code-block or list container is emitted as it
\* is and never inside a paragraph.  If a paragraph is open when the line
\* arrives the paragraph closer is emitted before it, and after the line no
\* paragraph is open; in the returned markup no list container and no
\* code-block container lies between a paragraph opener and its closer.
\* -------------------------------------------------------------------------
C19_ContainersOutsideParagraphs ==
  /\ pc = "map" =>
       \A k \in 1..(lineIdx - 1) :
         StartsBlockContainer(VisitedLine(k)) =>
           /\ mapped[k] = (IF OpenBeforeLine(k) THEN TagPEnd ELSE <<>>)
                            \o VisitedLine(k)
           /\ ~OpenBeforeLine(k + 1)
  /\ pc = "done" => NoBlockInParagraph(result)

\* The line is a list-run line or a line of a code block: it holds a list
\* tag or a code-block tag.
IsListOrCodeBlockLine(line) ==
  \E t \in {TagUl, TagUlEnd, TagOl, TagOlEnd, TagLi, TagLiEnd, TagPre, TagPreEnd} :
    Contains(line, t)

\* A non-empty line that is neither a list-run line nor a code-block line.
IsTextLine(line) == line # <<>> /\ ~IsListOrCodeBlockLine(line)

\* -------------------------------------------------------------------------
\* C20: every non-empty line that is neither a list-run line nor a
\* code-block line is emitted inside a paragraph, whatever inline markup it
\* begins with.  The first such line (the first line, or one that follows a
\* line of another class) is emitted after a paragraph opener, and each
\* such line that follows another one is emitted after a line-break marker,
\* in the paragraph the run opened.
\* -------------------------------------------------------------------------
C20_TextLinesInParagraphs ==
  pc = "map" =>
    \A k \in 1..(lineIdx - 1) :
      IsTextLine(VisitedLine(k)) =>
        IF k > 1 /\ IsTextLine(VisitedLine(k - 1))
        THEN mapped[k] = TagBr \o VisitedLine(k) /\ OpenBeforeLine(k)
        ELSE mapped[k] = TagP \o VisitedLine(k)

\* -------------------------------------------------------------------------
\* Interleaved invocations: the three tabs of OutputTabs (transcription,
\* summary, translation) each pass their text to markdownToHtml.
\* -------------------------------------------------------------------------
MaxCalls == 2

\* Texts whose rendering uses the buffer, the line list and the flag: a
\* paragraph of two lines, two paragraphs with emphasis, a list and a line.
ConcurrentTexts ==
  {<<"a", NL, "b">>,
   <<"a", NL, NL, STAR, "b", STAR>>,
   <<DASH, SP, "a", NL, "b">>}

InitConcurrent ==
  /\ calls \in [1..MaxCalls -> {CallOf(StringValue(t)) : t \in ConcurrentTexts}]
  /\ frames = [c \in 1..MaxCalls |-> NewFrame]
  /\ NoSingleCall
  /\ app = InitialApp(FALSE, [kind |-> "empty", id |-> ""])
  /\ transcription = IdleTranscription
  /\ summarization = IdleRequest
  /\ translation = IdleRequest

SpecConcurrent == InitConcurrent /\ [][NextConcurrent]_vars

\* C14: however the steps of several invocations are interleaved, an
\* invocation that has returned has returned what markdownToHtml returns
\* for its argument when it runs alone, and two invocations that have
\* returned for the same argument have returned the same output.
C14_NoInterference ==
  /\ \A c \in DOMAIN calls :
       calls[c].pc = "done" => calls[c].result = MarkdownToHtml(calls[c].markdownText)
  /\ \A c, d \in DOMAIN calls :
       /\ calls[c].pc = "done"
       /\ calls[d].pc = "done"
       /\ calls[c].markdownText = calls[d].markdownText
       => calls[c].result = calls[d].result

\* Two invocations on different texts are both inside their line loops at
\* the same time, one with a paragraph open and one without.
C14_Witness ==
  /\ calls[1].markdownText = StringValue(<<"a", NL, "b">>)
  /\ calls[2].markdownText = StringValue(<<DASH, SP, "a", NL, "b">>)
  /\ calls[1].pc = "map" /\ calls[1].lineIdx = 2
  /\ calls[2].pc = "map" /\ calls[2].lineIdx = 2
  /\ frames[FrameOf(1)].inParagraph
  /\ ~frames[FrameOf(2)].inParagraph

\* -------------------------------------------------------------------------
\* The application: transcription, summarization and translation requests.
\* -------------------------------------------------------------------------
InitApp ==
  /\ \E client \in BOOLEAN : app = InitialApp(client, [kind |-> "empty", id |-> ""])
  /\ transcription = IdleTranscription
  /\ summarization = IdleRequest
  /\ translation = IdleRequest
  /\ calls = <<>>
  /\ frames = <<>>
  /\ NoSingleCall

SpecApp == InitApp /\ [][NextApp]_vars

\* The handler of a transcription returns in this step.
TranscriptionReturns == transcription.pc = "streaming" /\ transcription'.pc = "idle"

\* The handler of a summarization or of a translation returns in this step.
RequestReturns(request) == request.pc = "awaiting" /\ request'.pc = "idle"

\* C16: an operation the generation service answers without any text ends
\* in an error.  A transcription whose stream carried no text returns with
\* transcriptionError set, and the status is never Transcription complete.
\* with no transcription text and no error; a summarization or translation
\* whose answer carries no text returns with its error set and no result.
C16_EmptyResponseIsError ==
  [][/\ TranscriptionReturns /\ transcription.fullTranscription = <<>>
        => app'.transcriptionError # Null
     /\ ~(/\ app'.transcriptionStatus = Status("Transcription complete.")
          /\ ~Truthy(app'.transcriptionText)
          /\ app'.transcriptionError = Null)
     /\ RequestReturns(summarization) /\ ~HasAnswerText(summarization'.answer[1])
        => app'.summaryError # Null /\ app'.summaryText = Null
     /\ RequestReturns(translation) /\ ~HasAnswerText(translation'.answer[1])
        => app'.translationError # Null /\ app'.translationText = Null]_vars

\* -------------------------------------------------------------------------
\* Degenerate paragraphs.
\* -------------------------------------------------------------------------
\* The output holds, from index i on, a paragraph opener, spaces, tabs and
\* newlines only, and a paragraph closer.
DegenerateParagraphAt(out, i) ==
  /\ StartsWithAt(out, i, TagP)
  /\ \E j \in (i + Len(TagP))..(Len(out) - Len(TagPEnd) + 1) :
       /\ StartsWithAt(out, j, TagPEnd)
       /\ IsWhitespaceOnly(SubSeq(out, i + Len(TagP), j - 1))

\* C21: the output of markdownToHtml holds no paragraph opener that is
\* followed by its closer with only whitespace or nothing in between.
C21_NoDegenerateParagraph ==
  pc = "done" => \A i \in 1..Len(result) : ~DegenerateParagraphAt(result, i)

\* A text line and a line of one tab have been rendered: the line of
\* whitespace closed the paragraph and opened none.
C21_Witness ==
  /\ pc = "done"
  /\ markdownText = StringValue(<<"a", NL, TAB>>)
  /\ result = TagP \o <<"a">> \o TagPEnd

\* -------------------------------------------------------------------------
\* List items and the lines they come from.
\* -------------------------------------------------------------------------
\* Line l without its leading spaces and tabs.
WithoutLeadingWhitespace(l) ==
  LET text == {k \in 1..Len(l) : l[k] \notin {SP, TAB}}
  IN  IF text = {} THEN <<>> ELSE SubSeq(l, Min(text), Len(l))

\* The index at which the item text of l starts, l taken without its
\* leading whitespace (0: l does not begin with a list marker and a space).
MarkerLineItemStart(l) ==
  LET t == WithoutLeadingWhitespace(l)
  IN  IF UnorderedItemStart(t) # 0 THEN UnorderedItemStart(t)
      ELSE OrderedItemStart(t)

IsMarkerLine(l) == MarkerLineItemStart(l) # 0

\* The list item that holds the text of marker line l and nothing else.
ItemOfLine(l) ==
  LET t == WithoutLeadingWhitespace(l)
  IN  TagLi \o Trim(SubSeq(t, MarkerLineItemStart(l), Len(t))) \o TagLiEnd

\* The items of the marker lines of ls from line k on, in their order.
RECURSIVE ItemsOfLines(_, _)
ItemsOfLines(ls, k) ==
  IF k > Len(ls) THEN <<>>
  ELSE (IF IsMarkerLine(ls[k]) THEN <<ItemOfLine(ls[k])>> ELSE <<>>)
         \o ItemsOfLines(ls, k + 1)

\* The list items of the output, each from its opener to the first closer
\* after it, in their order.
ItemsOfOutput(out) ==
  LET opens == {i \in 1..Len(out) : StartsWithAt(out, i, TagLi)}
      close(i) == Min({j \in i..Len(out) : StartsWithAt(out, j, TagLiEnd)} \cup {Len(out) + 1})
      nth[n \in 0..Cardinality(opens)] ==
        IF n = 0 THEN 0 ELSE Min({i \in opens : i > nth[n - 1]})
  IN  [n \in 1..Cardinality(opens) |->
         SubSeq(out, nth[n], Min({close(nth[n]) + Len(TagLiEnd) - 1, Len(out)}))]

\* C22: the list items of the output are, one for one and in order, the
\* items of the source lines that begin (after leading whitespace) with a
\* list marker followed by whitespace: as many items as marker lines, each
\* holding the text of its own line only, and none from any other line.
C22_ItemsMatchMarkerLines ==
  pc = "done" =>
    ItemsOfOutput(result) = ItemsOfLines(Split(markdownText.val), 1)

\* -------------------------------------------------------------------------
\* List runs.
\* -------------------------------------------------------------------------
\* Line l is a list line with item text, or a blank line.
IsItemOrBlankLine(l) ==
  \/ l = <<>>
  \/ ListKind(l) # "none" /\ ExpectedItem(l) # TagLi \o TagLiEnd

\* The lines at which a list run starts: list lines whose predecessor is
\* not a list line of the same kind.
ListRunStarts(ls) ==
  {k \in 1..Len(ls) :
     /\ ListKind(ls[k]) # "none"
     /\ k = 1 \/ ListKind(ls[k - 1]) # ListKind(ls[k])}

\* C23: a list run ends at the first line that is not a list line of its
\* kind.  For an input of list lines with item text and blank lines, the
\* output holds one list container per run, so that two list lines of one
\* kind separated by a blank line yield two containers.
C23_BlankLineEndsListRun ==
  pc = "done" =>
    LET ls == Split(markdownText.val)
    IN  (\A k \in 1..Len(ls) : IsItemOrBlankLine(ls[k]))
          => Count(result, TagUl) + Count(result, TagOl) = Cardinality(ListRunStarts(ls))

\* -------------------------------------------------------------------------
\* Strong emphasis: a double-delimiter span in a line of words.
\* -------------------------------------------------------------------------
MaxStrongFragments == 5

StrongFragments ==
  {StarStar, UscoreUscore, <<"a">>, <<SP>>, <<"b", SP, "c">>}

StrongInputs ==
  {StringValue(t) : t \in Concats(StrongFragments, MaxStrongFragments)}

InitStrong == \E value \in StrongInputs : Called(value)

SpecStrong == InitStrong /\ [][Next]_vars

\* Text without delimiters and newlines: letters, digits and spaces.
IsWords(s) == \A k \in 1..Len(s) : s[k] \in AlphaNum \cup {SP}

\* s is pre, the double delimiter dd, the text t, dd again, and post, with
\* pre, t and post words, pre empty or ending with a space and post empty
\* or starting with one.
IsStrongSpan(s, pre, dd, t, post) ==
  /\ s = pre \o dd \o t \o dd \o post
  /\ IsWords(pre) /\ IsWords(t) /\ IsWords(post)
  /\ pre = <<>> \/ pre[Len(pre)] = SP
  /\ post = <<>> \/ post[1] = SP

\* The rendering of the span in its line: one paragraph, one strong
\* container that holds t.
StrongSpanRendering(pre, t, post) ==
  TagP \o Trim(pre \o TagStrong \o t \o TagStrongEnd \o post) \o TagPEnd

\* C24: strong emphasis takes precedence over emphasis.  A span of a double
\* asterisk or a double underscore around a text t of words, bounded by
\* whitespace or the ends of the input, is rendered as one strong container
\* that holds t, and no emphasis container is made of its delimiters.
C24_StrongBeforeEmphasis ==
  pc = "done" =>
    \A dd \in {StarStar, UscoreUscore} :
      \A i \in 1..Len(markdownText.val) : \A j \in (i + 2)..Len(markdownText.val) :
        LET s == markdownText.val
            pre == SubSeq(s, 1, i - 1)
            t == SubSeq(s, i + 2, j - 1)
            post == SubSeq(s, j + 2, Len(s))
        IN  IsStrongSpan(s, pre, dd, t, post)
              => /\ result = StrongSpanRendering(pre, t, post)
                 /\ Count(result, TagStrong) = 1
                 /\ Count(result, TagEm) = 0

\* The span __b c__ after a word and a space has been rendered.
C24_Witness ==
  /\ pc = "done"
  /\ markdownText = StringValue(<<"a", SP>> \o UscoreUscore \o <<"b", SP, "c">> \o UscoreUscore)
  /\ result = TagP \o <<"a", SP>> \o TagStrong \o <<"b", SP, "c">> \o TagStrongEnd \o TagPEnd

\* -------------------------------------------------------------------------
\* Emphasis: single-delimiter spans in lines of words.
\* -------------------------------------------------------------------------
MaxEmphasisFragments == 4

EmphasisFragments ==
  {<<STAR, "a", STAR>>, <<USCORE, "b", USCORE>>, <<SP>>, <<"c">>, <<NL>>}

EmphasisInputs ==
  {StringValue(t) : t \in Concats(EmphasisFragments, MaxEmphasisFragments)}

InitEmphasis == \E value \in EmphasisInputs : Called(value)

SpecEmphasis == InitEmphasis /\ [][Next]_vars

\* s holds at i..j a span: a delimiter, a non-empty text of letters and
\* digits, and the same delimiter, the opening one at the start of s or
\* after whitespace and the closing one at the end of s or before
\* whitespace.
IsBoundedSpan(s, i, j) ==
  /\ s[i] \in {STAR, USCORE}
  /\ s[j] = s[i]
  /\ j > i + 1
  /\ \A k \in (i + 1)..(j - 1) : s[k] \in AlphaNum
  /\ i = 1 \/ s[i - 1] \in {SP, TAB, NL}
  /\ j = Len(s) \/ s[j + 1] \in {SP, TAB, NL}

BoundedSpans(s) ==
  {ij \in (1..Len(s)) \X (1..Len(s)) : ij[1] < ij[2] /\ IsBoundedSpan(s, ij[1], ij[2])}

\* C25: every span of a single asterisk or underscore around a text t,
\* bounded by whitespace or the ends of the input, becomes an emphasis
\* container that holds t: the output holds at least one emphasis
\* container per span, also for two spans separated by a single space.
C25_EverySpanEmphasised ==
  pc = "done" =>
    LET s == markdownText.val
    IN  /\ Count(result, TagEm) >= Cardinality(BoundedSpans(s))
        /\ \A ij \in BoundedSpans(s) :
             Contains(result, TagEm \o SubSeq(s, ij[1] + 1, ij[2] - 1) \o TagEmEnd)

\* -------------------------------------------------------------------------
\* Nesting of the containers of the output.
\* -------------------------------------------------------------------------
\* The opener and the closer of every container markdownToHtml writes.
Containers ==
  {<<TagStrong, TagStrongEnd>>, <<TagEm, TagEmEnd>>, <<TagCode, TagCodeEnd>>,
   <<TagPre, TagPreEnd>>, <<TagUl, TagUlEnd>>, <<TagOl, TagOlEnd>>,
   <<TagLi, TagLiEnd>>, <<TagP, TagPEnd>>}

\* Reading out from index i on with the openers of the containers that are
\* open (innermost first): every closer closes the innermost open
\* container, and none is left open at the end.
RECURSIVE NestedFrom(_, _, _)
NestedFrom(out, i, open) ==
  IF i > Len(out) THEN open = <<>>
  ELSE LET opened == {c \in Containers : StartsWithAt(out, i, c[1])}
           closed == {c \in Containers : StartsWithAt(out, i, c[2])}
       IN  IF opened # {}
           THEN LET c == CHOOSE c \in opened : TRUE
                IN  NestedFrom(out, i + Len(c[1]), <<c[1]>> \o open)
           ELSE IF closed # {}
           THEN LET c == CHOOSE c \in closed : TRUE
                IN  /\ open # <<>>
                    /\ Head(open) = c[1]
                    /\ NestedFrom(out, i + Len(c[2]), Tail(open))
           ELSE NestedFrom(out, i + 1, open)

\* C26: the output of markdownToHtml is well nested: every container that
\* is opened is closed, and containers close in the reverse order of their
\* opening.
C26_WellNested == pc = "done" => NestedFrom(result, 1, <<>>)

\* -------------------------------------------------------------------------
\* A transcription and its stream.
\* -------------------------------------------------------------------------
SpecTranscription == InitApp /\ [][NextTranscription]_vars

\* The text shown after the chunks ts have been handled: null before the
\* first one, their concatenation in order afterwards.
ShownAfter(ts) == IF ts = <<>> THEN Null ELSE Some(Join(ts))

\* C27: live transcription shows exactly what has arrived.  onProgress has
\* been called once per chunk with text the generator has yielded; when the
\* handler has taken the k-th of them transcriptionText is the
\* concatenation of the k texts in their order of arrival (before it has
\* taken it, of the first k - 1); a chunk without text changes neither; and
\* the generator returns the concatenation of all the texts it yielded.
C27_LiveTranscription ==
  LET t == transcription
  IN  /\ t.pc # "idle" => t.chunkCount = Len(t.delivered)
      /\ t.pc = "yielded" =>
           app.transcriptionText = ShownAfter(SubSeq(t.delivered, 1, Len(t.delivered) - 1))
      /\ t.pc # "yielded" => app.transcriptionText = ShownAfter(t.delivered)
      /\ t.returned # Null => t.returned = Some(Join(t.delivered))

\* Three chunks have been taken from the stream, one without text, x and
\* then y, and the handler has taken both texts.
C27_Witness ==
  /\ transcription.pc = "streaming"
  /\ transcription.pulled = 3
  /\ transcription.delivered = <<<<"x">>, <<"y">>>>
  /\ transcription.chunkCount = 2
  /\ app.transcriptionText = Some(<<"x", "y">>)

\* The stream makes its next move: a chunk, a failure, or its end.
StreamMoves ==
  \/ \E chunk \in StreamChunks :
       transcription.pulled < MaxStreamChunks /\ ReceiveChunk(chunk)
  \/ \E cause \in Failures : StreamFails(cause)
  \/ StreamEnds

\* The service answers every request in the end, with a chunk, a failure
\* or the end of the stream, and the handler resumes when its await has
\* a value.
SpecTranscriptionFair ==
  SpecTranscription /\ WF_vars(StreamMoves) /\ WF_vars(ConsumeChunk)

\* The step in which a transcription ends: isTranscribing was true and is
\* false.
TranscriptionEnds == app.isTranscribing /\ ~app'.isTranscribing

\* C28: every started transcription ends.  Once isTranscribing is true it
\* becomes false with transcriptionProgress 100, and in the step in which it
\* does, the status is Transcription complete. with no transcriptionError,
\* or Transcription failed. with transcriptionError set.
C28_TranscriptionEnds ==
  /\ app.isTranscribing ~> (~app.isTranscribing /\ app.transcriptionProgress = 100)
  /\ [][TranscriptionEnds =>
          /\ app'.transcriptionProgress = 100
          /\ \/ /\ app'.transcriptionStatus = Status("Transcription complete.")
                /\ app'.transcriptionError = Null
             \/ /\ app'.transcriptionStatus = Status("Transcription failed.")
                /\ app'.transcriptionError # Null]_vars

\* A transcription has ended in a failure after a chunk with text.
C28_Witness ==
  /\ ~app.isTranscribing
  /\ app.transcriptionProgress = 100
  /\ app.transcriptionStatus = Status("Transcription failed.")
  /\ app.transcriptionError # Null
  /\ transcription.delivered # <<>>

\* -------------------------------------------------------------------------
\* Results of requests and the video on display.
\* -------------------------------------------------------------------------
\* C29: a summary or a translation on display belongs to the current video.
\* Whenever summaryText (translationText) is not null, the request that
\* stored it was made with the transcription text of the video whose id is
\* the current videoId, and that text is still the transcription on
\* display.
C29_ResultOfCurrentVideo ==
  /\ app.summaryText # Null =>
       /\ summarization.videoId = app.videoId
       /\ app.transcriptionText # Null
  /\ app.translationText # Null =>
       /\ translation.videoId = app.videoId
       /\ app.transcriptionText # Null

\* -------------------------------------------------------------------------
\* Rejected transcription requests.
\* -------------------------------------------------------------------------
\* handleTranscription is called with url in the field and rejects the
\* call: there is no client, url is empty, or url holds no video id.
RejectedCall(url) ==
  /\ StartTranscription(url)
  /\ ~app.aiClient \/ url.kind \in {"empty", "other"}

\* C30: a rejected transcription request changes nothing but the error.  It
\* sets transcriptionError, leaves transcriptionText, summaryText,
\* translationText, videoId, videoTitle, transcriptionStatus and
\* isTranscribing as they are, and sends no request: no transcription
\* starts and the requests in flight stay as they are.
C30_RejectedCallKeepsResults ==
  [][\A url \in Urls :
       RejectedCall(url) =>
         /\ app'.transcriptionError # Null
         /\ app'.transcriptionText = app.transcriptionText
         /\ app'.summaryText = app.summaryText
         /\ app'.translationText = app.translationText
         /\ app'.videoId = app.videoId
         /\ app'.videoTitle = app.videoTitle
         /\ app'.transcriptionStatus = app.transcriptionStatus
         /\ app'.isTranscribing = app.isTranscribing
         /\ UNCHANGED <<transcription, summarization, translation>>]_vars

\* A URL without a video id has been rejected while a transcription and its
\* summary are on display.
C30_Witness ==
  /\ app.transcriptionError = Some("Invalid YouTube URL provided.")
  /\ app.youtubeUrl.kind = "other"
  /\ app.transcriptionText # Null
  /\ app.summaryText # Null
  /\ app.videoId # Null

====
